---------------------------- MODULE Spec2Model ----------------------------
(***************************************************************************)
(* A model of network.py of NeuralMorphemeSegmentation: the length         *)
(* bucketing (make_bucket_lengths, collect_buckets), the label grammar     *)
(* (get_next_morpheme_types, get_next_morpheme,                            *)
(* is_correct_morpheme_sequence), the constrained decoder                  *)
(* (Partitioner._decode_best), the recoding of the words of a bucket       *)
(* (_preprocess, _recode_bucket_data), the morpheme context encoders      *)
(* (_make_morpheme_data, _make_morpheme_data_simple), the collection of    *)
(* the label probabilities (_predict_label_probs) and the conversion of    *)
(* labels into morphemes (labels_to_morphemes).                            *)
(*                                                                         *)
(* Python values are modelled as follows.                                  *)
(*  - a str is the sequence of its characters, so that str.split, the      *)
(*    substring test `a in b` and "{}-{}".format are computed, not assumed;*)
(*  - a list is a sequence; a numpy row is a function on 0..n-1;           *)
(*  - a call that raises yields a record whose err field names the         *)
(*    exception ("none" when the call returns);                            *)
(*  - a probability is p / 2^LogDenom with p a power of two or 0, kept as   *)
(*    the integer p, so that -log is exact: NegLog is measured in units    *)
(*    of ln 2.                                                             *)
(***************************************************************************)
EXTENDS Integers, Sequences, FiniteSets, TLC

(***************************************************************************)
(* Python strings                                                          *)
(***************************************************************************)
Dash == "-"

\* str.split("-"): the parts between the separators (always at least one part)
RECURSIVE SplitFrom(_, _, _)
SplitFrom(s, i, cur) ==
    IF i > Len(s) THEN <<cur>>
    ELSE IF s[i] = Dash THEN <<cur>> \o SplitFrom(s, i + 1, <<>>)
    ELSE SplitFrom(s, i + 1, Append(cur, s[i]))

Split(s) == SplitFrom(s, 1, <<>>)

\* the Python test `a in b` of two strings: a is a substring of b
InStr(a, b) ==
    \E k \in 0..(Len(b) - Len(a)) : \A j \in 1..Len(a) : b[k + j] = a[j]

\* "{}-{}".format(x, y)
Format(x, y) == x \o <<Dash>> \o y

\* a Python list built by a comprehension: the sequence itself, its elements
\* computed once
List(s) == s \o <<>>

\* the Python test `x in list`
InList(x, list) == \E k \in 1..Len(list) : list[k] = x

\* the strings of the program
sPAD == <<"P", "A", "D">>
sBEGIN == <<"B", "E", "G", "I", "N">>
sEND == <<"E", "N", "D">>
sUNKNOWN == <<"U", "N", "K", "N", "O", "W", "N">>
sPREF == <<"P", "R", "E", "F">>
sROOT == <<"R", "O", "O", "T">>
sLINK == <<"L", "I", "N", "K">>
sSUFF == <<"S", "U", "F", "F">>
sENDING == <<"E", "N", "D", "I", "N", "G">>
sPOSTFIX == <<"P", "O", "S", "T", "F", "I", "X">>
sHYPH == <<"H", "Y", "P", "H">>
sNone == <<"N", "o", "n", "e">>
sB == <<"B">>
sM == <<"M">>
sE == <<"E">>
sS == <<"S">>

AUXILIARY == <<sPAD, sBEGIN, sEND, sUNKNOWN>>
PAD == 0
BEGIN == 1
END == 2
UNKNOWN == 3
AUXILIARY_CODES == {PAD, BEGIN, END, UNKNOWN}

(***************************************************************************)
(* The label grammar                                                       *)
(***************************************************************************)
MORPHEMES == <<sSUFF, sEND, sLINK, sPOSTFIX, sPREF, sROOT>>

\* a grammar in which every type, POSTFIX too, has the successors of ROOT
StartOfRoot(morpheme_type) == 0

NextTypesStart(morpheme_type) ==
    IF morpheme_type \in {sROOT, sSUFF, sHYPH} THEN 0
    ELSE IF morpheme_type = sEND THEN 2
    ELSE IF morpheme_type \in {sPREF, sLINK, sBEGIN} THEN 4
    ELSE 6

\* the slice alone: neither HYPH nor None is appended
SlicedTypes(morpheme_type) == SubSeq(MORPHEMES, NextTypesStart(morpheme_type) + 1, 6)

get_next_morpheme_types(morpheme_type) ==
    IF morpheme_type = sNone THEN <<sNone>>
    ELSE LET start == NextTypesStart(morpheme_type)
             sliced == SubSeq(MORPHEMES, start + 1, 6)
             hyph == IF Len(sliced) > 0 /\ morpheme_type # sHYPH
                     THEN Append(sliced, sHYPH) ELSE sliced
         IN IF morpheme_type = sBEGIN THEN Append(hyph, sNone) ELSE hyph

\* [x-y for y in types] for the first tag only
FirstTagProduct(tags, types) ==
    IF tags = <<>> THEN <<>>
    ELSE List([k \in 1..Len(types) |-> Format(<<Head(tags)>>, types[k])])

\* [x-y for x in tags for y in types]
RECURSIVE Product(_, _)
Product(tags, types) ==
    IF tags = <<>> THEN <<>>
    ELSE List([k \in 1..Len(types) |-> Format(<<Head(tags)>>, types[k])])
         \o Product(Tail(tags), types)

\* get_next_morpheme: err is "ValueError" when the unpacking of split("-")
\* into two names fails
get_next_morpheme(morpheme) ==
    IF morpheme = sEND THEN [err |-> "none", val |-> <<>>]
    ELSE LET m == IF morpheme = sBEGIN THEN Format(sS, sBEGIN) ELSE morpheme
             parts == Split(m)
         IN IF Len(parts) # 2 THEN [err |-> "ValueError", val |-> <<>>]
            ELSE LET morpheme_label == parts[1]
                     morpheme_type == parts[2]
                 IN IF InStr(morpheme_label, <<"B", "M">>)
                    THEN [err |-> "none",
                          val |-> Product(<<"M", "E">>, <<morpheme_type>>)]
                    ELSE [err |-> "none",
                          val |-> Product(<<"B", "S">>,
                                          get_next_morpheme_types(morpheme_type))]

FirstTypes == <<sPREF, sROOT, sNone>>
LastTypes == <<sROOT, sSUFF, sENDING, sPOSTFIX, sNone>>

\* a validator that takes every pair of neighbours for a transition
AnyPairs(morphemes, i) == [err |-> "none", val |-> TRUE]

\* the loop of lines 901-903 from pair i on: "False" at the first pair that
\* is not a transition, "ValueError" when get_next_morpheme raises first
RECURSIVE PairsFrom(_, _)
PairsFrom(morphemes, i) ==
    IF i >= Len(morphemes) THEN [err |-> "none", val |-> TRUE]
    ELSE LET nxt == get_next_morpheme(morphemes[i])
         IN IF nxt.err # "none" THEN [err |-> nxt.err, val |-> FALSE]
            ELSE IF ~InList(morphemes[i + 1], nxt.val)
                 THEN [err |-> "none", val |-> FALSE]
                 ELSE PairsFrom(morphemes, i + 1)

is_correct_morpheme_sequence(morphemes) ==
    IF morphemes = <<>> THEN [err |-> "none", val |-> FALSE]
    ELSE IF \E k \in 1..Len(morphemes) : ~InStr(<<Dash>>, morphemes[k])
    THEN [err |-> "none", val |-> FALSE]
    ELSE LET first == Split(morphemes[1])
             last == Split(morphemes[Len(morphemes)])
         IN IF Len(first) # 2 THEN [err |-> "ValueError", val |-> FALSE]
            ELSE IF ~InStr(first[1], <<"B", "S">>) \/ ~InList(first[2], FirstTypes)
            THEN [err |-> "none", val |-> FALSE]
            ELSE IF Len(last) # 2 THEN [err |-> "ValueError", val |-> FALSE]
            ELSE IF ~InStr(last[1], <<"E", "S">>) \/ ~InList(last[2], LastTypes)
            THEN [err |-> "none", val |-> FALSE]
            ELSE PairsFrom(morphemes, 1)

(***************************************************************************)
(* Length bucketing                                                        *)
(***************************************************************************)
\* sorted(lengths)
Sorted(lengths) == SortSeq(lengths, LAMBDA a, b : a < b)

\* the loop of make_bucket_lengths from bucket i on; sorted[level] with
\* level = -1 is Python's last element
RECURSIVE BucketLengthsFrom(_, _, _, _, _)
BucketLengthsFrom(sorted, buckets_number, i, last_bucket_length, bucket_lengths) ==
    IF i >= buckets_number THEN [err |-> "none", val |-> bucket_lengths]
    ELSE LET m == Len(sorted)
             level == ((m * (i + 1)) \div buckets_number) - 1
         IN IF level >= m \/ level < -m
            THEN [err |-> "IndexError", val |-> <<>>]
            ELSE LET curr_length == IF level >= 0 THEN sorted[level + 1]
                                    ELSE sorted[m + level + 1]
                 IN IF curr_length > last_bucket_length
                    THEN BucketLengthsFrom(sorted, buckets_number, i + 1, curr_length,
                                           Append(bucket_lengths, curr_length))
                    ELSE BucketLengthsFrom(sorted, buckets_number, i + 1,
                                           last_bucket_length, bucket_lengths)

make_bucket_lengths(lengths, buckets_number) ==
    BucketLengthsFrom(Sorted(lengths), buckets_number, 0, 0, <<>>)

\* bisect.bisect_right(a, x) instead: the number of elements not above x
bisect_right(a, x) == Cardinality({k \in 1..Len(a) : a[k] <= x})

\* bisect.bisect_left(a, x) on a sorted list: the number of elements below x
bisect_left(a, x) == Cardinality({k \in 1..Len(a) : a[k] < x})

\* the loop of lines 58-60 from item i (0-based) on
RECURSIVE AssignFrom(_, _, _, _)
AssignFrom(lengths, bucket_lengths, i, indexes) ==
    IF i >= Len(lengths) THEN [err |-> "none", val |-> indexes]
    ELSE LET index == bisect_left(bucket_lengths, lengths[i + 1])
         IN IF index >= Len(indexes) THEN [err |-> "IndexError", val |-> <<>>]
            ELSE AssignFrom(lengths, bucket_lengths, i + 1,
                            [indexes EXCEPT ![index + 1] = Append(@, i)])

\* [L] * n
Repeat(L, n) == List([k \in 1..n |-> L])

\* every bucket's length once, however many pieces the bucket is cut into
UnsplitLengths(bucket_lengths, indexes, max_bucket_size) == bucket_lengths

\* lines 62-65: every non-empty bucket's length, once per piece
RECURSIVE SplitLengths(_, _, _)
SplitLengths(bucket_lengths, indexes, max_bucket_size) ==
    IF bucket_lengths = <<>> \/ indexes = <<>> THEN <<>>
    ELSE (IF Len(Head(indexes)) > 0
          THEN Repeat(Head(bucket_lengths),
                      ((Len(Head(indexes)) - 1) \div max_bucket_size) + 1)
          ELSE <<>>)
         \o SplitLengths(Tail(bucket_lengths), Tail(indexes), max_bucket_size)

\* a bucket that is never cut: all its indexes in one piece
OnePiece(curr_indexes, max_bucket_size) == <<curr_indexes>>

\* curr_indexes[start:start+max_bucket_size] for start in range(0, len, size)
RECURSIVE Pieces(_, _)
Pieces(curr_indexes, max_bucket_size) ==
    IF curr_indexes = <<>> THEN <<>>
    ELSE IF Len(curr_indexes) <= max_bucket_size THEN <<curr_indexes>>
    ELSE <<SubSeq(curr_indexes, 1, max_bucket_size)>>
         \o Pieces(SubSeq(curr_indexes, max_bucket_size + 1, Len(curr_indexes)),
                   max_bucket_size)

\* lines 66-68
RECURSIVE SplitIndexes(_, _)
SplitIndexes(indexes, max_bucket_size) ==
    IF indexes = <<>> THEN <<>>
    ELSE Pieces(Head(indexes), max_bucket_size)
         \o SplitIndexes(Tail(indexes), max_bucket_size)

\* lines 69-70: zip, keeping the non-empty buckets
RECURSIVE ZipNonEmpty(_, _)
ZipNonEmpty(bucket_lengths, indexes) ==
    IF bucket_lengths = <<>> \/ indexes = <<>> THEN <<>>
    ELSE (IF Len(Head(indexes)) > 0
          THEN <<[L |-> Head(bucket_lengths), indexes |-> Head(indexes)]>>
          ELSE <<>>)
         \o ZipNonEmpty(Tail(bucket_lengths), Tail(indexes))

NoSize == -1

collect_buckets(lengths, buckets_number, max_bucket_size) ==
    LET made == make_bucket_lengths(lengths, buckets_number)
    IN IF made.err # "none" THEN [err |-> made.err, val |-> <<>>]
       ELSE LET assigned == AssignFrom(lengths, made.val, 0,
                                       [k \in 1..Len(made.val) |-> <<>>])
            IN IF assigned.err # "none" THEN [err |-> assigned.err, val |-> <<>>]
               ELSE IF max_bucket_size # NoSize
               THEN [err |-> "none",
                     val |-> ZipNonEmpty(
                         SplitLengths(made.val, assigned.val, max_bucket_size),
                         SplitIndexes(assigned.val, max_bucket_size))]
               ELSE [err |-> "none", val |-> ZipNonEmpty(made.val, assigned.val)]

(***************************************************************************)
(* The constrained decoder                                                 *)
(***************************************************************************)
\* np.inf, and None as a predecessor
Inf == 1000000
NoneState == -1

\* a probability p stands for p / 2^LogDenom
LogDenom == 4

RECURSIVE Log2(_)
Log2(p) == IF p <= 1 THEN 0 ELSE 1 + Log2(p \div 2)

\* -np.log(p), in units of ln 2; -log(0) is inf
NegLog(p) == IF p = 0 THEN Inf ELSE LogDenom - Log2(p)

isinf(x) == x >= Inf

\* float addition of two costs, neither of them negative
AddCost(x, y) == IF isinf(x) \/ isinf(y) THEN Inf ELSE x + y

\* target_symbols_ is a sequence of label strings, the label of code c at
\* index c + 1; target_symbol_codes_ is its inverse
CodesOf(target_symbols_) == 0..(Len(target_symbols_) - 1)
HasSymbol(target_symbols_, x) == InList(x, target_symbols_)
target_symbol_codes_(target_symbols_, x) ==
    CHOOSE c \in CodesOf(target_symbols_) : target_symbols_[c + 1] = x

\* [codes[x] for x in labels if x in codes]
RECURSIVE KnownCodes(_, _)
KnownCodes(target_symbols_, labels) ==
    IF labels = <<>> THEN <<>>
    ELSE (IF HasSymbol(target_symbols_, Head(labels))
          THEN <<target_symbol_codes_(target_symbols_, Head(labels))>> ELSE <<>>)
         \o KnownCodes(target_symbols_, Tail(labels))

\* get_possible_next_states; target_symbols_[None] is a TypeError
PossibleNextStates(target_symbols_, state_index) ==
    IF state_index = NoneState THEN [err |-> "TypeError", val |-> <<>>]
    ELSE LET next_states == get_next_morpheme(target_symbols_[state_index + 1])
         IN IF next_states.err # "none" THEN [err |-> next_states.err, val |-> <<>>]
            ELSE [err |-> "none", val |-> KnownCodes(target_symbols_, next_states.val)]

\* lines 770-772
EndTags == <<"E", "S">>
EndTypes == <<sROOT, sSUFF, sEND, sPOSTFIX, sNone>>
EndStates(target_symbols_) == KnownCodes(target_symbols_, Product(EndTags, EndTypes))

\* A fitted Partitioner, as far as _decode_best reads it. The grammar is a
\* pure function of the label strings, so what it gives for every code of
\* target_symbols_ is computed once per Partitioner and looked up afterwards.
Partitioner(symbols) ==
    [target_symbols_ |-> symbols,
     target_symbols_number_ |-> Len(symbols),
     next_states |-> [c \in CodesOf(symbols) \cup {NoneState} |->
                         PossibleNextStates(symbols, c)],
     end_states |-> EndStates(symbols)]

get_possible_next_states(self, state_index) == self.next_states[state_index]

\* np.argmax of a row: the first index of the largest value
ArgMax(row) ==
    CHOOSE c \in DOMAIN row :
        /\ \A d \in DOMAIN row : row[d] <= row[c]
        /\ \A d \in DOMAIN row : row[d] = row[c] => c <= d

\* np.argsort of a list of costs: the codes by ascending cost. numpy's
\* default sort is not stable: codes of equal cost come out in an order the
\* build decides, here by ascending ("asc") or descending ("desc") code. The
\* codes of cost inf are equal and last.
TieOrders == {"asc", "desc"}
Before(costs, tie, x, y) ==
    \/ costs[x + 1] < costs[y + 1]
    \/ /\ costs[x + 1] = costs[y + 1]
       /\ IF tie = "asc" THEN x < y ELSE x > y

\* the codes of `left` from the first in the order to the last
RECURSIVE SortedFrom(_, _, _)
SortedFrom(left, costs, tie) ==
    IF left = {} THEN <<>>
    ELSE LET x == CHOOSE c \in left : \A y \in left \ {c} : Before(costs, tie, c, y)
         IN <<x>> \o SortedFrom(left \ {x}, costs, tie)

ArgSort(costs, tie) ==
    SortedFrom({x \in 0..(Len(costs) - 1) : ~isinf(costs[x + 1])}, costs, tie)
    \o SelectSeq(IF tie = "asc" THEN List([k \in 1..Len(costs) |-> k - 1])
                 ELSE List([k \in 1..Len(costs) |-> Len(costs) - k]),
                 LAMBDA x : isinf(costs[x + 1]))

\* lines 756-763: the writes of one predecessor, from its k-th successor on.
\* layer = [costs, states, inf_count, writes]; writes counts, per state, how
\* often the branch of line 757 was taken.
RECURSIVE WriteFrom(_, _, _, _, _, _)
WriteFrom(layer, possible_states, k, prev_state, prev_cost, row) ==
    IF k > Len(possible_states) THEN layer
    ELSE LET state == possible_states[k]
         IN IF isinf(layer.costs[state + 1])
            THEN WriteFrom(
                   [costs |-> [layer.costs EXCEPT
                                ![state + 1] = AddCost(prev_cost, NegLog(row[state]))],
                    states |-> [layer.states EXCEPT ![state + 1] = prev_state],
                    inf_count |-> layer.inf_count - 1,
                    writes |-> [layer.writes EXCEPT ![state + 1] = @ + 1],
                    err |-> layer.err],
                   possible_states, k + 1, prev_state, prev_cost, row)
            ELSE WriteFrom(layer, possible_states, k + 1, prev_state, prev_cost, row)

\* lines 750-766: the predecessors in state_order from the k-th on
RECURSIVE ExpandFrom(_, _, _, _, _, _, _)
ExpandFrom(self, layer, state_order, k, prev_costs, i, row) ==
    IF k > Len(state_order) THEN layer
    ELSE LET prev_state == state_order[k]
         IN IF isinf(prev_costs[prev_state + 1]) THEN layer
            ELSE IF prev_state \in AUXILIARY_CODES /\ i # 0
            THEN ExpandFrom(self, layer, state_order, k + 1, prev_costs, i, row)
            ELSE LET possible_states == get_possible_next_states(self, prev_state)
                 IN IF possible_states.err # "none"
                    THEN [layer EXCEPT !.err = possible_states.err]
                    ELSE LET written == WriteFrom(layer, possible_states.val, 1,
                                                  prev_state,
                                                  prev_costs[prev_state + 1], row)
                         IN IF written.inf_count = Cardinality(AUXILIARY_CODES)
                            THEN written
                            ELSE ExpandFrom(self, written, state_order, k + 1,
                                            prev_costs, i, row)

\* lines 746-768: the layer of position i + 1 from the costs of position i
NextLayer(self, prev_costs, i, row, tie) ==
    ExpandFrom(self,
               [costs |-> List([k \in 1..self.target_symbols_number_ |-> Inf]),
                states |-> List([k \in 1..self.target_symbols_number_ |-> NoneState]),
                inf_count |-> self.target_symbols_number_,
                writes |-> List([k \in 1..self.target_symbols_number_ |-> 0]),
                err |-> "none"],
               ArgSort(prev_costs, tie), 1, prev_costs, i, row)

\* lines 740-743
InitialLayer(self, probs) ==
    [costs |-> List([k \in 1..self.target_symbols_number_ |->
                        IF k - 1 = BEGIN THEN NegLog(probs[0][BEGIN]) ELSE Inf]),
     states |-> List([k \in 1..self.target_symbols_number_ |->
                         IF k - 1 = BEGIN THEN BEGIN ELSE NoneState]),
     inf_count |-> self.target_symbols_number_,
     writes |-> List([k \in 1..self.target_symbols_number_ |-> 0]),
     err |-> "none"]

\* lines 744-768: the layers of positions 0..length, a sequence
RECURSIVE LayersFrom(_, _, _, _, _)
LayersFrom(self, probs, length, tie, layers) ==
    IF Len(layers) > length THEN layers
    ELSE LET i == Len(layers) - 1
             layer == NextLayer(self, layers[Len(layers)].costs, i, probs[i + 1], tie)
         IN IF layer.err # "none" THEN Append(layers, layer)
            ELSE LayersFrom(self, probs, length, tie, Append(layers, layer))

\* min(list, key): the first element whose key is the least
MinBy(list, costs) ==
    list[CHOOSE k \in 1..Len(list) :
            /\ \A j \in 1..Len(list) : costs[list[k] + 1] <= costs[list[j] + 1]
            /\ \A j \in 1..(k - 1) : costs[list[j] + 1] # costs[list[k] + 1]]

\* lines 774-776: best_states, last state first; states[j][None] is a TypeError
RECURSIVE Backtrack(_, _, _)
Backtrack(layers, j, best_states) ==
    IF j <= 0 THEN [err |-> "none", val |-> best_states]
    ELSE LET last == best_states[Len(best_states)]
         IN IF last = NoneState THEN [err |-> "TypeError", val |-> best_states]
            ELSE Backtrack(layers, j - 1,
                           Append(best_states, layers[j + 1].states[last + 1]))

Reverse(s) == List([k \in 1..Len(s) |-> s[Len(s) + 1 - k]])

\* lines 740-777: the fallback search
Fallback(self, probs, length, tie) ==
    LET layers == LayersFrom(self, probs, length, tie, <<InitialLayer(self, probs)>>)
        possible_states == self.end_states
    IN IF layers[Len(layers)].err # "none"
       THEN [err |-> layers[Len(layers)].err, val |-> <<>>, layers |-> layers]
       ELSE IF possible_states = <<>>
       THEN [err |-> "ValueError", val |-> <<>>, layers |-> layers]
       ELSE LET back == Backtrack(layers, length,
                                  <<MinBy(possible_states, layers[length + 1].costs)>>)
            IN [err |-> back.err, val |-> Reverse(back.val), layers |-> layers]

\* lines 778-783: the rows of probs_to_return from row j (0-based) on
RECURSIVE TrimFrom(_, _, _, _, _)
TrimFrom(self, probs, best_states, j, rows) ==
    IF j >= Len(best_states) - 1 THEN [err |-> "none", val |-> rows]
    ELSE LET possible_states == get_possible_next_states(self, best_states[j + 1])
         IN IF possible_states.err # "none"
            THEN [err |-> possible_states.err, val |-> rows]
            ELSE TrimFrom(self, probs, best_states, j + 1,
                     Append(rows, [c \in CodesOf(self.target_symbols_) |->
                                      IF \E k \in 1..Len(possible_states.val) :
                                             possible_states.val[k] = c
                                      THEN probs[j + 1][c] ELSE 0]))

NoLayers == <<>>

\* self._decode_best(probs, length); labels and probs_to_return are what the
\* call returns, tie is the order np.argsort gives to equal costs
decode_best(self, probs, length, tie) ==
    LET argmax_states == List([k \in 1..(length + 1) |-> ArgMax(probs[k - 1])])
        best_labels == List([k \in 1..(length + 1) |->
                                self.target_symbols_[argmax_states[k] + 1]])
        correct == is_correct_morpheme_sequence(Tail(best_labels))
    IN IF correct.err # "none"
       THEN [err |-> correct.err, fallback |-> FALSE, labels |-> <<>>,
             probs_to_return |-> <<>>, best_states |-> <<>>, layers |-> NoLayers]
       ELSE LET found == IF ~correct.val THEN Fallback(self, probs, length, tie)
                         ELSE [err |-> "none", val |-> argmax_states,
                               layers |-> NoLayers]
            IN IF found.err # "none"
               THEN [err |-> found.err, fallback |-> TRUE, labels |-> <<>>,
                     probs_to_return |-> <<>>, best_states |-> found.val,
                     layers |-> found.layers]
               ELSE LET trimmed == TrimFrom(self, probs, found.val, 0, <<>>)
                    IN IF trimmed.err # "none"
                       THEN [err |-> trimmed.err, fallback |-> ~correct.val,
                             labels |-> <<>>, probs_to_return |-> <<>>,
                             best_states |-> found.val, layers |-> found.layers]
                       ELSE [err |-> "none", fallback |-> ~correct.val,
                             labels |-> List([k \in 1..(Len(found.val) - 1) |->
                                            self.target_symbols_[found.val[k + 1] + 1]]),
                             probs_to_return |-> trimmed.val,
                             best_states |-> found.val, layers |-> found.layers]

(***************************************************************************)
(* Recoding the words of a bucket                                          *)
(***************************************************************************)
Clamp(x, lo, hi) == IF x < lo THEN lo ELSE IF x > hi THEN hi ELSE x

\* encoding.get(x, PAD) instead: an unknown character is coded as padding
EncodeOrPAD(symbols_, x) ==
    IF HasSymbol(symbols_, <<x>>) THEN target_symbol_codes_(symbols_, <<x>>) ELSE PAD

\* encoding.get(x, UNKNOWN), encoding the inverse of symbols_
Encode(symbols_, x) ==
    IF HasSymbol(symbols_, <<x>>) THEN target_symbol_codes_(symbols_, <<x>>)
    ELSE UNKNOWN

\* lines 279-283 for one row: a row of PAD with BEGIN at column 0, the codes
\* of the word assigned to the slice 1:1+len(word), END at column 1+len(word).
\* numpy clips the slice to the row and refuses a list of another length
\* (one of length 1 is broadcast); an index outside the row raises.
RecodeWord(word, bucket_length, symbols_) ==
    LET n == Len(word)
        slice == Clamp(1 + n, 0, bucket_length) - Clamp(1, 0, bucket_length)
    IN IF bucket_length < 1 THEN [err |-> "IndexError", val |-> <<>>]
       ELSE IF n # slice /\ n # 1 THEN [err |-> "ValueError", val |-> <<>>]
       ELSE IF 1 + n >= bucket_length THEN [err |-> "IndexError", val |-> <<>>]
       ELSE [err |-> "none",
             val |-> List([k \in 1..bucket_length |->
                              LET col == k - 1
                              IN IF col = 0 THEN BEGIN
                                 ELSE IF col <= n THEN Encode(symbols_, word[col])
                                 ELSE IF col = 1 + n THEN END
                                 ELSE PAD])]

\* _recode_bucket_data: the rows of the words from the j-th on
RECURSIVE RecodeFrom(_, _, _, _, _)
RecodeFrom(bucket_data, bucket_length, symbols_, j, rows) ==
    IF j > Len(bucket_data) THEN [err |-> "none", val |-> rows]
    ELSE LET row == RecodeWord(bucket_data[j], bucket_length, symbols_)
         IN IF row.err # "none" THEN row
            ELSE RecodeFrom(bucket_data, bucket_length, symbols_, j + 1,
                            Append(rows, row.val))

recode_bucket_data(bucket_data, bucket_length, symbols_) ==
    IF bucket_length < 1 THEN [err |-> "IndexError", val |-> <<>>]
    ELSE RecodeFrom(bucket_data, bucket_length, symbols_, 1, <<>>)

\* _make_bucket_data: the words of a bucket (line 261), recoded (line 266)
make_bucket_data(symbols_, words, bucket_length, bucket_indexes) ==
    recode_bucket_data(List([k \in 1..Len(bucket_indexes) |-> words[bucket_indexes[k] + 1]]),
                       bucket_length, symbols_)

\* line 238-239: the buckets from the b-th on
RECURSIVE BucketDataFrom(_, _, _, _, _)
BucketDataFrom(symbols_, words, buckets_with_indexes, b, made) ==
    IF b > Len(buckets_with_indexes) THEN [err |-> "none", val |-> made]
    ELSE LET one == make_bucket_data(symbols_, words, buckets_with_indexes[b].L,
                                     buckets_with_indexes[b].indexes)
         IN IF one.err # "none" THEN one
            ELSE BucketDataFrom(symbols_, words, buckets_with_indexes, b + 1,
                                Append(made, one.val))

\* line 234
WordLengths(words) == List([i \in 1..Len(words) |-> Len(words[i]) + 2])

\* _preprocess(data): data_by_buckets; buckets_with_indexes is
\* collect_buckets(WordLengths(data), buckets_number, NoSize)
preprocess(symbols_, words, buckets_with_indexes) ==
    IF buckets_with_indexes.err # "none"
    THEN [err |-> buckets_with_indexes.err, val |-> <<>>]
    ELSE BucketDataFrom(symbols_, words, buckets_with_indexes.val, 1, <<>>)

(***************************************************************************)
(* The probabilities of the labels, word by word                           *)
(***************************************************************************)
\* line 656: the mean of the models' predictions for a bucket, one matrix per
\* row of the bucket; a matrix is known by the row it was computed from
bucket_probs(bucket_data) ==
    List([j \in 1..Len(bucket_data) |-> [input |-> bucket_data[j]]])

\* line 652: [None] * len(words); an entry is [elem, writes], writes counting
\* the assignments of line 658
NoneElem == [input |-> <<>>]
NoProbs(words) == List([i \in 1..Len(words) |-> [elem |-> NoneElem, writes |-> 0]])

\* lines 657-658: zip(bucket_indexes, bucket_probs) from the j-th pair on
RECURSIVE FillFrom(_, _, _, _)
FillFrom(filled, bucket_indexes, probs_of_bucket, j) ==
    IF j > Len(bucket_indexes) \/ j > Len(probs_of_bucket) THEN filled
    ELSE LET i == bucket_indexes[j]
         IN IF i >= Len(filled.val)
            THEN [filled EXCEPT !.err = "IndexError"]
            ELSE FillFrom([filled EXCEPT !.val[i + 1] =
                              [elem |-> probs_of_bucket[j], writes |-> @.writes + 1]],
                          bucket_indexes, probs_of_bucket, j + 1)

\* lines 653-658: zip(data_by_buckets, indexes_by_buckets) from the r-th on
RECURSIVE FillBucketsFrom(_, _, _, _)
FillBucketsFrom(filled, data_by_buckets, indexes_by_buckets, r) ==
    IF r > Len(data_by_buckets) \/ r > Len(indexes_by_buckets) \/ filled.err # "none"
    THEN filled
    ELSE FillBucketsFrom(FillFrom(filled, indexes_by_buckets[r].indexes,
                                  bucket_probs(data_by_buckets[r]), 1),
                         data_by_buckets, indexes_by_buckets, r + 1)

\* self._predict_label_probs(words) of a Partitioner with buckets_number = K
predict_label_probs(symbols_, words, K) ==
    LET indexes_by_buckets == collect_buckets(WordLengths(words), K, NoSize)
        data_by_buckets == preprocess(symbols_, words, indexes_by_buckets)
    IN IF data_by_buckets.err # "none"
       THEN [err |-> data_by_buckets.err, val |-> <<>>]
       ELSE FillBucketsFrom([err |-> "none", val |-> NoProbs(words)],
                            data_by_buckets.val, indexes_by_buckets.val, 1)

(***************************************************************************)
(* The morpheme context encoder                                            *)
(***************************************************************************)
\* an omitted bound of a Python slice
Nil == -1000

\* s[start:stop:step] as Python computes it, for step 1 and step -1
PySlice(s, start, stop, step) ==
    LET n == Len(s)
        wrap(x) == IF x < 0 THEN x + n ELSE x
    IN IF step = 1
       THEN LET lo == IF start = Nil THEN 0 ELSE Clamp(wrap(start), 0, n)
                hi == IF stop = Nil THEN n ELSE Clamp(wrap(stop), 0, n)
            IN List([k \in 1..(hi - lo) |-> s[lo + k]])
       ELSE LET lo == IF start = Nil THEN n - 1 ELSE Clamp(wrap(start), -1, n - 1)
                hi == IF stop = Nil THEN -1 ELSE Clamp(wrap(stop), -1, n - 1)
            IN List([k \in 1..(lo - hi) |-> s[lo + 2 - k]])

\* the numbers of a set in ascending order
RECURSIVE Ascending(_)
Ascending(set) ==
    IF set = {} THEN <<>>
    ELSE LET x == CHOOSE y \in set : \A z \in set : y <= z
         IN <<x>> \o Ascending(set \ {x})

\* The trie, by its interface: a trie is the set of its entries.
make_trie(entries) == {entries[k] : k \in 1..Len(entries)}

\* descend_by_prefixes(sequence): the end offsets e at which an entry is the
\* prefix sequence[0:e], in ascending order
descend_by_prefixes(trie, sequence) ==
    Ascending({e \in 1..Len(sequence) : SubSeq(sequence, 1, e) \in trie})

\* descend_by_prefixes(sequence, start_pos, max_count, return_pairs=True):
\* for each starting offset the pairs (first, last) with an entry at
\* sequence[first:last], the max_count shortest ones
RECURSIVE PairsOfStarts(_, _, _, _)
PairsOfStarts(trie, sequence, starts, max_count) ==
    IF starts = <<>> THEN <<>>
    ELSE LET first == Head(starts)
             lasts == Ascending({e \in (first + 1)..Len(sequence) :
                                    SubSeq(sequence, first + 1, e) \in trie})
             kept == SubSeq(lasts, 1, IF Len(lasts) < max_count THEN Len(lasts)
                                      ELSE max_count)
         IN List([k \in 1..Len(kept) |-> <<first, kept[k]>>])
            \o PairsOfStarts(trie, sequence, Tail(starts), max_count)

descend_by_prefixes_pairs(trie, sequence, start_pos, max_count) ==
    PairsOfStarts(trie, sequence, Ascending(start_pos), max_count)

\* find_substrings(word, return_positions=True): for every end offset with a
\* match, the start offsets of the entries that end there. The interface
\* leaves the order of the end offsets open: ascending or descending.
EndOrders == {"asc", "desc"}
find_substrings(trie, word, order) ==
    LET starts(end) == {st \in 0..(end - 1) : SubSeq(word, st + 1, end) \in trie}
        ends == Ascending({end \in 1..Len(word) : starts(end) # {}})
        positions == List([k \in 1..Len(ends) |->
                              [starts |-> starts(ends[k]), end |-> ends[k]]])
    IN IF order = "asc" THEN positions ELSE Reverse(positions)

\* Scores are kept in units of 1 / ScoreUnit: 1.0 is ScoreUnit
ScoreUnit == 2
One == ScoreUnit

\* _get_ngram_score; morpheme_counts_[mode] is a function on the ngrams it
\* holds
get_ngram_score(self, ngram, mode) ==
    IF self.to_memorize_ngram_counts
    THEN IF ngram \in DOMAIN self.morpheme_counts_[mode]
         THEN self.morpheme_counts_[mode][ngram] ELSE 0
    ELSE One

\* what an array of dtype int keeps of a score: its integer part
AsInt(x) == (x \div ScoreUnit) * ScoreUnit

Max(x, y) == IF x >= y THEN x ELSE y

\* curr_answer[row, ch] = max(score, curr_answer[from_row, from_ch]) on an
\* array of bucket_length rows; enc = [arr, log, err], log the writes in order
Put(enc, row, ch, score, from_row, from_ch) ==
    LET rows == Len(enc.arr)
        at(r) == IF r < 0 THEN r + rows + 1 ELSE r + 1
    IN IF enc.err # "none" THEN enc
       ELSE IF row >= rows \/ row < -rows \/ from_row >= rows \/ from_row < -rows
       THEN [enc EXCEPT !.err = "IndexError"]
       ELSE [arr |-> [enc.arr EXCEPT ![at(row)][ch + 1] =
                         AsInt(Max(score, enc.arr[at(from_row)][from_ch + 1]))],
             log |-> Append(enc.log, [row |-> at(row) - 1, ch |-> ch, score |-> score]),
             err |-> "none"]

\* np.zeros(shape=(bucket_length, channels), dtype=int)
Zeros(bucket_length, channels) ==
    [arr |-> List([r \in 1..bucket_length |-> List([c \in 1..channels |-> 0])]),
     log |-> <<>>,
     err |-> "none"]

\* lines 302-308: the prefixes, from the k-th on
RECURSIVE PrefixesFrom(_, _, _, _, _)
PrefixesFrom(self, word, prefixes, k, enc) ==
    IF k > Len(prefixes) THEN enc
    ELSE LET end == prefixes[k]
             score == get_ngram_score(self, PySlice(word, Nil, end, 1), "pref")
         IN PrefixesFrom(self, word, prefixes, k + 1,
                IF end = 1 THEN Put(enc, 1, 10, score, 1, 10)
                ELSE Put(Put(enc, 1, 0, score, 1, 0), end, 5, score, end, 5))

\* lines 311-317: the postfixes, from the i-th on
RECURSIVE PostfixesFrom(_, _, _, _, _)
PostfixesFrom(self, word, postfix_lengths, i, enc) ==
    IF i > Len(postfix_lengths) THEN enc
    ELSE LET m == Len(word)
             k == postfix_lengths[i]
             score == get_ngram_score(self, PySlice(word, -k, Nil, 1), "postfix")
         IN PostfixesFrom(self, word, postfix_lengths, i + 1,
                IF k = 1 THEN Put(enc, m, 14, score, m, 14)
                ELSE Put(Put(enc, m, 9, score, m, 9),
                         m - k + 1, 4, score, m - k + 1, 4))

\* lines 322-328: the endings that end at `end`, from the i-th on
RECURSIVE EndingsFrom(_, _, _, _, _, _)
EndingsFrom(self, word, end, ending_lengths, i, enc) ==
    IF i > Len(ending_lengths) THEN enc
    ELSE LET k == ending_lengths[i]
             score == get_ngram_score(self, PySlice(word, end - k, end, 1), "end")
         IN EndingsFrom(self, word, end, ending_lengths, i + 1,
                IF k = 1 THEN Put(enc, end, 13, score, end, 13)
                ELSE Put(Put(enc, end - k + 1, 3, score, end - k + 1, 3),
                         end, 8, score, end, 8))

\* lines 320-329: the candidate ends ending_ends[::-1], from the i-th on;
\* ctx = [enc, suffix_ends]
RECURSIVE EndingEndsFrom(_, _, _, _, _)
EndingEndsFrom(self, word, ends, i, ctx) ==
    IF i > Len(ends) THEN ctx
    ELSE LET end == ends[i]
             ending_lengths == descend_by_prefixes(self.right_morphemes_.end,
                                                   PySlice(word, end - 1, 0, -1))
         IN EndingEndsFrom(self, word, ends, i + 1,
                [enc |-> EndingsFrom(self, word, end, ending_lengths, 1, ctx.enc),
                 suffix_ends |-> ctx.suffix_ends
                     \cup {end - ending_lengths[j] : j \in 1..Len(ending_lengths)}])

\* lines 333-340: the suffixes, from the i-th pair on
RECURSIVE SuffixesFrom(_, _, _, _, _)
SuffixesFrom(self, word, suffixes, i, enc) ==
    IF i > Len(suffixes) THEN enc
    ELSE LET m == Len(word)
             first == suffixes[i][1]
             last == suffixes[i][2]
             score == get_ngram_score(self, PySlice(word, m - last, m - first, 1),
                                      "suff")
         IN SuffixesFrom(self, word, suffixes, i + 1,
                IF last = first + 1 THEN Put(enc, m - first, 12, score, m - first, 12)
                ELSE Put(Put(enc, m - last + 1, 2, score, m - last + 1, 2),
                         m - first, 7, score, m - first, 7))

\* an encoder that writes nothing for the roots it finds forward
NoRootWrites(self, word, start, root_ends, i, enc) == enc

\* lines 343-349: the roots found forward from `start`, from the i-th on
RECURSIVE RootEndsFrom(_, _, _, _, _, _)
RootEndsFrom(self, word, start, root_ends, i, enc) ==
    IF i > Len(root_ends) THEN enc
    ELSE LET end == root_ends[i]
             score == get_ngram_score(self, PySlice(word, start, end, 1), "root")
         IN RootEndsFrom(self, word, start, root_ends, i + 1,
                IF end = start + 1 THEN Put(enc, start + 1, 11, score, start + 1, 11)
                ELSE Put(Put(enc, start + 1, 1, score, start + 1, 1),
                         end, 6, score, end, 6))

\* lines 341-349: the candidate root starts, from the i-th on
RECURSIVE RootStartsFrom(_, _, _, _, _)
RootStartsFrom(self, word, root_starts, i, enc) ==
    IF i > Len(root_starts) THEN enc
    ELSE LET start == root_starts[i]
             root_ends == descend_by_prefixes(self.left_morphemes_.root,
                                              PySlice(word, start, Nil, 1))
         IN RootStartsFrom(self, word, root_starts, i + 1,
                RootEndsFrom(self, word, start, root_ends, 1, enc))

\* lines 352-358: the roots found backward from `end`, from the i-th on
RECURSIVE RootLengthsFrom(_, _, _, _, _, _)
RootLengthsFrom(self, word, end, root_lengths, i, enc) ==
    IF i > Len(root_lengths) THEN enc
    ELSE LET k == root_lengths[i]
             score == get_ngram_score(self, PySlice(word, end - k, end, 1), "root")
         IN RootLengthsFrom(self, word, end, root_lengths, i + 1,
                IF k = 1 THEN Put(enc, end, 11, score, end, 11)
                ELSE Put(Put(enc, end - k + 1, 1, score, end - k + 1, 1),
                         end, 6, score, end, 6))

\* lines 350-358: the candidate root ends, from the i-th on
RECURSIVE RootEndsBackFrom(_, _, _, _, _)
RootEndsBackFrom(self, word, ends, i, enc) ==
    IF i > Len(ends) THEN enc
    ELSE LET end == ends[i]
             root_lengths == descend_by_prefixes(self.right_morphemes_.root,
                                                 PySlice(word, end - 1, -1, -1))
         IN RootEndsBackFrom(self, word, ends, i + 1,
                RootLengthsFrom(self, word, end, root_lengths, 1, enc))

\* _make_morpheme_data for one word: curr_answer, with the log of its writes
make_morpheme_data(self, word, bucket_length) ==
    LET m == Len(word)
        prefixes == descend_by_prefixes(self.left_morphemes_.pref,
                                        PySlice(word, Nil, -1, 1))
        enc1 == PrefixesFrom(self, word, prefixes, 1, Zeros(bucket_length, 15))
        root_starts == <<0>> \o prefixes
        postfix_lengths == descend_by_prefixes(self.right_morphemes_.postfix,
                                               PySlice(word, Nil, 0, -1))
        enc2 == PostfixesFrom(self, word, postfix_lengths, 1, enc1)
        ending_ends == <<m>> \o List([i \in 1..Len(postfix_lengths) |->
                                         m - postfix_lengths[i]])
        ctx3 == EndingEndsFrom(self, word, Reverse(ending_ends), 1,
                    [enc |-> enc2,
                     suffix_ends |-> {ending_ends[i] : i \in 1..Len(ending_ends)}])
        suffixes == descend_by_prefixes_pairs(self.right_morphemes_.suff,
                        PySlice(word, Nil, Nil, -1),
                        {m - k : k \in ctx3.suffix_ends}, 3)
        enc4 == SuffixesFrom(self, word, suffixes, 1, ctx3.enc)
        suffix_starts == ctx3.suffix_ends
                             \cup {m - suffixes[i][2] : i \in 1..Len(suffixes)}
        enc5 == RootStartsFrom(self, word, root_starts, 1, enc4)
    IN RootEndsBackFrom(self, word, Ascending(suffix_starts), 1, enc5)

\* lines 300-333: suffix_starts of a word, the candidate root ends
suffix_starts(self, word) ==
    LET m == Len(word)
        postfix_lengths == descend_by_prefixes(self.right_morphemes_.postfix,
                                               PySlice(word, Nil, 0, -1))
        ending_ends == <<m>> \o List([i \in 1..Len(postfix_lengths) |->
                                         m - postfix_lengths[i]])
        ctx3 == EndingEndsFrom(self, word, Reverse(ending_ends), 1,
                    [enc |-> Zeros(m + 2, 15),
                     suffix_ends |-> {ending_ends[i] : i \in 1..Len(ending_ends)}])
        suffixes == descend_by_prefixes_pairs(self.right_morphemes_.suff,
                        PySlice(word, Nil, Nil, -1),
                        {m - k : k \in ctx3.suffix_ends}, 3)
    IN ctx3.suffix_ends \cup {m - suffixes[i][2] : i \in 1..Len(suffixes)}

\* lines 300-309: root_starts of a word, the candidate root starts
root_starts(self, word) ==
    {0} \cup LET prefixes == descend_by_prefixes(self.left_morphemes_.pref,
                                                 PySlice(word, Nil, -1, 1))
             IN {prefixes[i] : i \in 1..Len(prefixes)}

\* lines 369-375: the matches that end at `end`, from the i-th start on
RECURSIVE StartsFrom(_, _, _, _, _, _)
StartsFrom(self, word, starts, end, i, enc) ==
    IF i > Len(starts) THEN enc
    ELSE LET start == starts[i]
             score == get_ngram_score(self, PySlice(word, start, end, 1), "None")
         IN StartsFrom(self, word, starts, end, i + 1,
                IF end = start + 1 THEN Put(enc, start + 1, 2, score, start + 1, 2)
                ELSE Put(Put(enc, start + 1, 0, score, start + 0, 2),
                         end, 1, score, end, 1))

\* lines 368-375: the positions, from the i-th on
RECURSIVE PositionsFrom(_, _, _, _, _)
PositionsFrom(self, word, positions, i, enc) ==
    IF i > Len(positions) THEN enc
    ELSE PositionsFrom(self, word, positions, i + 1,
             StartsFrom(self, word, Ascending(positions[i].starts),
                        positions[i].end, 1, enc))

\* _make_morpheme_data_simple for one word
make_morpheme_data_simple(self, word, bucket_length, order) ==
    PositionsFrom(self, word, find_substrings(self.morpheme_trie_, word, order), 1,
                  Zeros(bucket_length, 3))

\* The dictionary of a trained Partitioner: entries is the set of the pairs
\* <<type, morpheme>> kept by _memorize_morphemes, counts the relative
\* frequency of each. _make_morpheme_tries builds the tries, the right ones
\* of the reversed morphemes.
MorphemesOf(entries, type) == {e[2] : e \in {x \in entries : x[1] = type}}
ReversedOf(set) == {Reverse(x) : x \in set}
CountsOf(entries, counts, type) ==
    [ngram \in MorphemesOf(entries, type) |-> counts[<<type, ngram>>]]
Memorized(entries, counts, to_memorize_ngram_counts) ==
    [left_morphemes_ |-> [pref |-> MorphemesOf(entries, "pref"),
                          root |-> MorphemesOf(entries, "root")],
     right_morphemes_ |-> [root |-> ReversedOf(MorphemesOf(entries, "root")),
                           suff |-> ReversedOf(MorphemesOf(entries, "suff")),
                           end |-> ReversedOf(MorphemesOf(entries, "end")),
                           postfix |-> ReversedOf(MorphemesOf(entries, "postfix"))],
     morpheme_trie_ |-> {e[2] : e \in entries},
     morpheme_counts_ |-> [type \in {"pref", "root", "suff", "end", "postfix", "None"}
                             |-> CountsOf(entries, counts, type)],
     to_memorize_ngram_counts |-> to_memorize_ngram_counts,
     use_morpheme_types |-> \A e \in entries : e[1] # "None"]

(***************************************************************************)
(* From labels back to morphemes                                           *)
(***************************************************************************)
\* lines 696-700
end_labels(self) ==
    IF self.use_morpheme_types
    THEN <<Format(sE, sROOT), Format(sE, sPREF), Format(sE, sSUFF), Format(sE, sEND),
           Format(sE, sPOSTFIX), Format(sS, sROOT), Format(sS, sPREF),
           Format(sS, sSUFF), Format(sS, sEND), Format(sS, sLINK), Format(sS, sHYPH)>>
    ELSE <<Format(sE, sNone), Format(sS, sNone)>>

\* lines 701-706: zip(word, labels) from the i-th pair on;
\* acc = [morphemes, curr_morpheme, morpheme_types]
RECURSIVE MorphemesFrom(_, _, _, _, _)
MorphemesFrom(self, word, labels, i, acc) ==
    IF i > Len(word) \/ i > Len(labels) THEN acc
    ELSE LET curr_morpheme == Append(acc.curr_morpheme, word[i])
             parts == Split(labels[i])
         IN MorphemesFrom(self, word, labels, i + 1,
                IF InList(labels[i], end_labels(self))
                THEN [morphemes |-> Append(acc.morphemes, curr_morpheme),
                      curr_morpheme |-> <<>>,
                      morpheme_types |-> Append(acc.morpheme_types, parts[Len(parts)])]
                ELSE [acc EXCEPT !.curr_morpheme = curr_morpheme])

\* self.labels_to_morphemes(word, labels, return_types=True)
labels_to_morphemes(self, word, labels) ==
    LET made == MorphemesFrom(self, word, labels, 1,
                    [morphemes |-> <<>>, curr_morpheme |-> <<>>,
                     morpheme_types |-> <<>>])
    IN [err |-> "none", morphemes |-> made.morphemes,
        morpheme_types |-> made.morpheme_types]

(***************************************************************************)
(* The inputs of the model                                                 *)
(***************************************************************************)
\* target_symbols_ as _make_vocabulary builds it: AUXILIARY, then the labels
\* of the corpus in sorted order. A corpus with types, and one without.
TypedSymbols ==
    AUXILIARY \o <<Format(sB, sROOT), Format(sE, sROOT), Format(sS, sEND),
                   Format(sS, sPREF), Format(sS, sROOT)>>
FlatSymbols ==
    AUXILIARY \o <<Format(sB, sNone), Format(sE, sNone), Format(sM, sNone),
                   Format(sS, sNone)>>
\* target_symbols_ of a corpus with hyphenated words
HyphenSymbols ==
    AUXILIARY \o <<Format(sB, sROOT), Format(sE, sROOT), Format(sS, sHYPH),
                   Format(sS, sROOT)>>
TypedPartitioner == Partitioner(TypedSymbols)
FlatPartitioner == Partitioner(FlatSymbols)
HyphenPartitioner == Partitioner(HyphenSymbols)
Corpora == {"typed", "flat"}
Fitted(corpus) ==
    IF corpus = "typed" THEN TypedPartitioner
    ELSE IF corpus = "hyphen" THEN HyphenPartitioner
    ELSE FlatPartitioner

MaxWordLen == 2

\* the probabilities of a row: High for one label, Mid for a second one or 0
\* for one label, Low for the others
High == 8
Mid == 4
Low == 1

LabelCodes(self) == CodesOf(self.target_symbols_) \ AUXILIARY_CODES

PeakRow(self, top, second) ==
    [c \in CodesOf(self.target_symbols_) |->
        IF c = top THEN High ELSE IF c = second THEN Mid ELSE Low]
ZeroRow(self, top, zero) ==
    [c \in CodesOf(self.target_symbols_) |->
        IF c = top THEN High ELSE IF c = zero THEN 0 ELSE Low]

\* the row of END, the last one of a matrix
LastRow(self) == PeakRow(self, END, PAD)

LabelPairs(self) ==
    {pair \in LabelCodes(self) \X LabelCodes(self) : pair[1] # pair[2]}

\* the rows of the characters of a word: a label on top, or END too early
Rows(self) ==
    {PeakRow(self, pair[1], pair[2]) : pair \in LabelPairs(self)}
    \cup {ZeroRow(self, pair[1], pair[2]) : pair \in LabelPairs(self)}
    \cup {LastRow(self)}

\* row 0, the position of BEGIN: BEGIN the most probable label, or PAD the
\* most probable one and BEGIN of probability 0
FirstRows(self) == {PeakRow(self, BEGIN, PAD), ZeroRow(self, PAD, BEGIN)}

\* the matrices of a word of `length` characters: length + 2 rows
Matrices(self, length) ==
    {[r \in 0..(length + 1) |->
         IF r = 0 THEN first ELSE IF r = length + 1 THEN LastRow(self) ELSE rows[r]] :
     first \in FirstRows(self), rows \in [1..length -> Rows(self)]}

\* row 0 with its maximum at any of the reserved codes: the classifier's
\* output at the position of BEGIN is not constrained
AnyFirstRows(self) == {PeakRow(self, top, UNKNOWN - top) : top \in AUXILIARY_CODES}

\* rows with one clear maximum each
TopRows(self) == {PeakRow(self, top, PAD) : top \in LabelCodes(self)}

\* the matrices of a word of `length` characters whose row 0 is any first row
RowZeroMatrices(self, length) ==
    {[r \in 0..(length + 1) |->
         IF r = 0 THEN first ELSE IF r = length + 1 THEN LastRow(self) ELSE rows[r]] :
     first \in AnyFirstRows(self), rows \in [1..length -> TopRows(self)]}

\* the matrices of a word of `length` characters with BEGIN on top of row 0
\* and one clear maximum in every other row, at any label but S-PREF
MaxRepeatLen == 2
RepeatRows(self) ==
    {PeakRow(self, top, PAD) :
        top \in LabelCodes(self) \
                    {target_symbol_codes_(self.target_symbols_, Format(sS, sPREF))}}
TopMatrices(self, length) ==
    {[r \in 0..(length + 1) |->
         IF r = 0 THEN PeakRow(self, BEGIN, PAD)
         ELSE IF r = length + 1 THEN LastRow(self) ELSE rows[r]] :
     rows \in [1..length -> RepeatRows(self)]}

\* the words of the encoder: at most MaxChars characters a, b
MaxChars == 4
Words == UNION {[1..n -> {"a", "b"}] : n \in 0..MaxChars}

\* the dictionaries: at most MaxEntries morphemes, all typed or all untyped,
\* every morpheme with the score 1.0 or, when the counts are memorized, at
\* most one of them with the score 1/2
MaxEntries == 2

\* symbols_ as _make_vocabulary builds it from a corpus whose only character
\* is "a"; the words to preprocess may hold the character "c" too
InputSymbols == AUXILIARY \o << <<"a">> >>
MaxData == 3
MaxDataLen == 2
DataWords == UNION {[1..n -> {"a", "c"}] : n \in 0..MaxDataLen}
DataLists == UNION {[1..n -> DataWords] : n \in 0..MaxData}
Morphemes == {<<"a">>, <<"b">>, <<"a", "b">>}
TypedEntries == {"pref", "root", "suff", "end", "postfix"} \X Morphemes
FlatEntries == {"None"} \X Morphemes
EntrySets ==
    {d \in SUBSET TypedEntries : Cardinality(d) <= MaxEntries}
    \cup {d \in SUBSET FlatEntries : Cardinality(d) <= MaxEntries}
Memos ==
    {Memorized(d, [e \in d |-> One], FALSE) : d \in EntrySets}
    \cup UNION {{Memorized(d, [e \in d |-> IF e = low THEN 1 ELSE One], TRUE) :
                   low \in d} : d \in EntrySets}

(***************************************************************************)
(* The state                                                               *)
(***************************************************************************)
\* collect_buckets is called with lists of at most MaxItems lengths in
\* 0..MaxLength, at most MaxBuckets buckets and a size of at most MaxBucketSize
MaxItems == 4
MaxLength == 3
MaxBuckets == 3
MaxBucketSize == 2

LengthLists == UNION {[1..n -> 0..MaxLength] : n \in 0..MaxItems}
BucketSizes == {NoSize} \cup 1..MaxBucketSize

\* the lists whose items have the lengths 1..N in some order, N <= MaxPermuted
MaxPermuted == 6
Permuted ==
    UNION {{l \in [1..n -> 1..n] : \A i, j \in 1..n : l[i] = l[j] => i = j} :
           n \in 1..MaxPermuted}

\* the label space of the grammar: BEGIN, END and every "<tag>-<type>"
Tags == <<sB, sM, sE, sS>>
Types == <<sPREF, sROOT, sLINK, sSUFF, sEND, sPOSTFIX, sHYPH, sNone>>
LabelSpace ==
    {sBEGIN, sEND} \cup {Format(Tags[t], Types[y]) : t \in 1..4, y \in 1..8}

\* label strings that are not labels: no separator, more than one separator,
\* an unknown tag, an unknown type, an empty tag
sX == <<"X">>
Malformed ==
    {sROOT, <<>>, Format(sB, Format(sROOT, sX)), Format(sX, sROOT),
     Format(sS, sENDING), Format(<<>>, sROOT)}

\* the morpheme types given to get_next_morpheme_types: the types of the
\* labels, BEGIN, and types the grammar does not know
TypeSpace == {Types[y] : y \in 1..8} \cup {sBEGIN, sENDING, sX, <<>>}

\* the labels the lists given to is_correct_morpheme_sequence are made of
ListLabels ==
    {Format(sB, sROOT), Format(sM, sROOT), Format(sE, sROOT), Format(sS, sROOT),
     Format(sS, sPREF), Format(sS, sEND), Format(sS, sPOSTFIX),
     Format(sS, sNone)} \cup Malformed

MaxLabels == 3
LabelLists == UNION {[1..n -> ListLabels] : n \in 0..MaxLabels}

\* the labels of the lists that are made of tagged labels only: every tag
\* with the types ROOT, POSTFIX and None
TaggedLabels ==
    {Format(Tags[t], y) : t \in 1..4, y \in {sROOT, sPOSTFIX, sNone}}

MaxTagged == 3
TaggedLists == UNION {[1..n -> TaggedLabels] : n \in 0..MaxTagged}

\* the word of n characters given to labels_to_morphemes
WordOf(n) == List([i \in 1..n |-> IF i % 2 = 1 THEN "a" ELSE "b"])

VARIABLES
    pc,         \* "idle", or the call that is under way or has ended
    corpus,     \* _decode_best: which fitted Partitioner is self
    probs,      \* _decode_best: the matrix of the word
    length,     \* _decode_best: the length of the word
    decoded,    \* _decode_best: the outcome of the call
    lengths,            \* collect_buckets: the argument lengths
    buckets_number,     \* collect_buckets: the argument buckets_number
    max_bucket_size,    \* collect_buckets: the argument max_bucket_size
    buckets,            \* collect_buckets: the outcome of the call
    morphemes,  \* the grammar: the argument, a label or a list of labels
    answer,     \* the grammar: the outcome of the call
    memo,       \* the encoder: the trained Partitioner, as far as it is read
    word,       \* the encoder: the word
    features,   \* the encoder: curr_answer and the writes that made it
    data,       \* _preprocess: the words
    data_by_buckets,    \* _preprocess: the recoded words of every bucket
    earlier,    \* the decoder: an earlier call, its arguments and what it returned
    labels,     \* labels_to_morphemes: the argument labels
    segmented,  \* labels_to_morphemes: the outcome of the call
    word_probs  \* _predict_label_probs: the result, entry by entry

decodeVars == <<corpus, probs, length, decoded>>
bucketVars == <<lengths, buckets_number, max_bucket_size, buckets>>
grammarVars == <<morphemes, answer>>
encodeVars == <<memo, word, features>>
recodeVars == <<data, data_by_buckets>>
historyVars == <<earlier>>
segmentVars == <<labels, segmented>>
predictVars == <<word_probs>>
vars == <<pc, decodeVars, bucketVars, grammarVars, encodeVars, recodeVars, historyVars,
          segmentVars, predictVars>>

NotDecoded ==
    [err |-> "nocall", fallback |-> FALSE, labels |-> <<>>,
     probs_to_return |-> <<>>, best_states |-> <<>>, layers |-> NoLayers]
NotCalled == [err |-> "nocall", val |-> <<>>]
NotEncoded == [arr |-> <<>>, log |-> <<>>, err |-> "nocall"]
NoMemo == Memorized({}, <<>>, FALSE)
\* the Partitioners labels_to_morphemes is called on: with and without
\* morpheme types
Segmenters == {[NoMemo EXCEPT !.use_morpheme_types = t] : t \in BOOLEAN}
NotSegmented == [err |-> "nocall", morphemes |-> <<>>, morpheme_types |-> <<>>]
NoCall ==
    [corpus |-> "none", probs |-> <<>>, length |-> 0, tie |-> "none",
     decoded |-> NotDecoded, interleaved |-> FALSE]

Init ==
    /\ pc = "idle"
    /\ corpus = "none"
    /\ probs = <<>>
    /\ length = 0
    /\ decoded = NotDecoded
    /\ lengths = <<>>
    /\ buckets_number = 1
    /\ max_bucket_size = NoSize
    /\ buckets = NotCalled
    /\ morphemes = <<>>
    /\ answer = NotCalled
    /\ memo = NoMemo
    /\ word = <<>>
    /\ features = NotEncoded
    /\ data = <<>>
    /\ data_by_buckets = NotCalled
    /\ earlier = NoCall
    /\ labels = <<>>
    /\ segmented = NotSegmented
    /\ word_probs = NotCalled

\* _predict_label_probs hands over the matrix of one word (lines 675-677)
Predict ==
    /\ pc = "idle"
    /\ \E c \in Corpora, m \in 0..MaxWordLen :
         \E p \in Matrices(Fitted(c), m) :
            /\ corpus' = c
            /\ probs' = p
            /\ length' = m
    /\ pc' = "predicted"
    /\ UNCHANGED <<decoded, bucketVars, grammarVars, encodeVars, recodeVars, historyVars,
                   segmentVars, predictVars>>

\* answer[i] = self._decode_best(elem, len(word))
DecodeBest ==
    /\ pc = "predicted"
    /\ \E tie \in TieOrders :
         decoded' = decode_best(Fitted(corpus), probs, length, tie)
    /\ pc' = "decoded"
    /\ UNCHANGED <<corpus, probs, length, bucketVars, grammarVars, encodeVars, recodeVars, historyVars,
                   segmentVars, predictVars>>

\* the next word
DecodeReturn ==
    /\ pc = "decoded"
    /\ pc' = "idle"
    /\ corpus' = "none"
    /\ probs' = <<>>
    /\ length' = 0
    /\ decoded' = NotDecoded
    /\ UNCHANGED <<bucketVars, grammarVars, encodeVars, recodeVars, historyVars,
                   segmentVars, predictVars>>

NextDecode == Predict \/ DecodeBest \/ DecodeReturn

SpecDecode == Init /\ [][NextDecode]_vars

\* _predict_label_probs hands over a matrix whose row 0 has its maximum at
\* any reserved code
PredictAnyRowZero ==
    /\ pc = "idle"
    /\ \E c \in Corpora, m \in 0..MaxWordLen :
         \E p \in RowZeroMatrices(Fitted(c), m) :
            /\ corpus' = c
            /\ probs' = p
            /\ length' = m
    /\ pc' = "predicted"
    /\ UNCHANGED <<decoded, bucketVars, grammarVars, encodeVars, recodeVars, historyVars,
                   segmentVars, predictVars>>

NextRowZero == PredictAnyRowZero \/ DecodeBest \/ DecodeReturn

SpecRowZero == Init /\ [][NextRowZero]_vars

\* _predict_label_probs hands over the matrix of one word of a corpus with
\* hyphens
PredictHyphen ==
    /\ pc = "idle"
    /\ \E m \in 0..MaxWordLen :
         \E p \in Matrices(HyphenPartitioner, m) :
            /\ corpus' = "hyphen"
            /\ probs' = p
            /\ length' = m
    /\ pc' = "predicted"
    /\ UNCHANGED <<decoded, bucketVars, grammarVars, encodeVars, recodeVars, historyVars,
                   segmentVars, predictVars>>

NextHyphen == PredictHyphen \/ DecodeBest \/ DecodeReturn

SpecHyphen == Init /\ [][NextHyphen]_vars

\* _predict_label_probs hands over the matrix of one word: BEGIN on top of
\* row 0, one clear maximum in every other row
PredictTop ==
    /\ pc = "idle"
    /\ \E m \in 0..MaxRepeatLen :
         \E p \in TopMatrices(TypedPartitioner, m) :
            /\ corpus' = "typed"
            /\ probs' = p
            /\ length' = m
    /\ pc' = "predicted"
    /\ UNCHANGED <<decoded, bucketVars, grammarVars, encodeVars, recodeVars, historyVars,
                   segmentVars, predictVars>>

\* _decode_best writing the trimmed rows into the matrix it was given
DecodeInPlace ==
    /\ pc = "predicted"
    /\ \E tie \in TieOrders :
         LET returned == decode_best(Fitted(corpus), probs, length, tie)
         IN /\ earlier # NoCall => tie = earlier.tie
            /\ decoded' = returned
            /\ probs' = [r \in DOMAIN probs |->
                            IF r \in 1..Len(returned.probs_to_return)
                            THEN returned.probs_to_return[r] ELSE probs[r]]
            /\ earlier' = IF earlier = NoCall
                          THEN [corpus |-> corpus, probs |-> probs, length |-> length,
                                tie |-> tie, decoded |-> returned, interleaved |-> FALSE]
                          ELSE [earlier EXCEPT !.interleaved =
                                   @ \/ <<corpus, probs, length>> #
                                        <<earlier.corpus, earlier.probs, earlier.length>>]
    /\ pc' = "decoded"
    /\ UNCHANGED <<corpus, length, bucketVars, grammarVars, encodeVars, recodeVars,
                   segmentVars, predictVars>>

\* _decode_best(probs, length) in a process that may have decoded before.
\* np.argsort is a function of its argument: the order it gives to equal
\* costs is one of TieOrders, the same in every call of the process. The
\* first call is remembered in `earlier`, with its arguments and that order.
DecodeOnce ==
    /\ pc = "predicted"
    /\ \E tie \in TieOrders :
         LET returned == decode_best(Fitted(corpus), probs, length, tie)
         IN /\ earlier # NoCall => tie = earlier.tie
            /\ decoded' = returned
            /\ earlier' = IF earlier = NoCall
                          THEN [corpus |-> corpus, probs |-> probs, length |-> length,
                                tie |-> tie, decoded |-> returned, interleaved |-> FALSE]
                          ELSE [earlier EXCEPT !.interleaved =
                                   @ \/ <<corpus, probs, length>> #
                                        <<earlier.corpus, earlier.probs, earlier.length>>]
    /\ pc' = "decoded"
    /\ UNCHANGED <<corpus, probs, length, bucketVars, grammarVars, encodeVars, recodeVars,
                   segmentVars, predictVars>>

NextRepeat == PredictTop \/ DecodeOnce \/ DecodeReturn

SpecRepeat == Init /\ [][NextRepeat]_vars

\* collect_buckets(lengths, buckets_number, max_bucket_size)
CollectBuckets ==
    /\ pc = "idle"
    /\ \E l \in LengthLists, K \in 1..MaxBuckets, S \in BucketSizes :
         /\ lengths' = l
         /\ buckets_number' = K
         /\ max_bucket_size' = S
         /\ buckets' = collect_buckets(l, K, S)
    /\ pc' = "collected"
    /\ UNCHANGED <<decodeVars, grammarVars, encodeVars, recodeVars, historyVars,
                   segmentVars, predictVars>>

\* the next batch
BucketsReturn ==
    /\ pc = "collected"
    /\ pc' = "idle"
    /\ lengths' = <<>>
    /\ buckets_number' = 1
    /\ max_bucket_size' = NoSize
    /\ buckets' = NotCalled
    /\ UNCHANGED <<decodeVars, grammarVars, encodeVars, recodeVars, historyVars,
                   segmentVars, predictVars>>

NextBuckets == CollectBuckets \/ BucketsReturn

\* collect_buckets(lengths, buckets_number) for items of lengths 1..N
CollectPermuted ==
    /\ pc = "idle"
    /\ \E l \in Permuted, K \in 1..MaxBuckets :
         /\ lengths' = l
         /\ buckets_number' = K
         /\ max_bucket_size' = NoSize
         /\ buckets' = collect_buckets(l, K, NoSize)
    /\ pc' = "collected"
    /\ UNCHANGED <<decodeVars, grammarVars, encodeVars, recodeVars, historyVars,
                   segmentVars, predictVars>>

NextPermuted == CollectPermuted \/ BucketsReturn

SpecPermuted == Init /\ [][NextPermuted]_vars

SpecBuckets == Init /\ [][NextBuckets]_vars

\* get_next_morpheme(morpheme) for a label of the label space
GetNextMorpheme ==
    /\ pc = "idle"
    /\ \E l \in LabelSpace :
         /\ morphemes' = l
         /\ answer' = get_next_morpheme(l)
    /\ pc' = "next_morpheme"
    /\ UNCHANGED <<decodeVars, bucketVars, encodeVars, recodeVars, historyVars,
                   segmentVars, predictVars>>

\* get_next_morpheme_types(morpheme_type)
GetNextMorphemeTypes ==
    /\ pc = "idle"
    /\ \E t \in TypeSpace :
         /\ morphemes' = t
         /\ answer' = [err |-> "none", val |-> get_next_morpheme_types(t)]
    /\ pc' = "next_types"
    /\ UNCHANGED <<decodeVars, bucketVars, encodeVars, recodeVars, historyVars,
                   segmentVars, predictVars>>

\* is_correct_morpheme_sequence(morphemes) for a list of label strings
IsCorrect ==
    /\ pc = "idle"
    /\ \E ms \in LabelLists :
         /\ morphemes' = ms
         /\ answer' = is_correct_morpheme_sequence(ms)
    /\ pc' = "is_correct"
    /\ UNCHANGED <<decodeVars, bucketVars, encodeVars, recodeVars, historyVars,
                   segmentVars, predictVars>>

GrammarReturn ==
    /\ pc \in {"next_morpheme", "next_types", "is_correct"}
    /\ pc' = "idle"
    /\ morphemes' = <<>>
    /\ answer' = NotCalled
    /\ UNCHANGED <<decodeVars, bucketVars, encodeVars, recodeVars, historyVars,
                   segmentVars, predictVars>>

NextGrammar == GetNextMorpheme \/ GetNextMorphemeTypes \/ IsCorrect \/ GrammarReturn

SpecGrammar == Init /\ [][NextGrammar]_vars

\* _make_bucket_data calls self._morpheme_memo_func for a word of a bucket
\* of the least length _preprocess gives it, len(word) + 2
MakeMorphemeData ==
    /\ pc = "idle"
    /\ \E self \in Memos, w \in Words, order \in EndOrders :
         /\ memo' = self
         /\ word' = w
         /\ features' = IF self.use_morpheme_types
                         THEN make_morpheme_data(self, w, Len(w) + 2)
                         ELSE make_morpheme_data_simple(self, w, Len(w) + 2, order)
    /\ pc' = "encoded"
    /\ UNCHANGED <<decodeVars, bucketVars, grammarVars, recodeVars, historyVars,
                   segmentVars, predictVars>>

\* the next word
EncodeReturn ==
    /\ pc = "encoded"
    /\ pc' = "idle"
    /\ memo' = NoMemo
    /\ word' = <<>>
    /\ features' = NotEncoded
    /\ UNCHANGED <<decodeVars, bucketVars, grammarVars, recodeVars, historyVars,
                   segmentVars, predictVars>>

NextEncode == MakeMorphemeData \/ EncodeReturn

\* _preprocess(data) of a Partitioner with buckets_number = K
Preprocess ==
    /\ pc = "idle"
    /\ \E d \in DataLists, K \in 1..MaxBuckets :
         LET buckets_with_indexes == collect_buckets(WordLengths(d), K, NoSize)
         IN /\ data' = d
            /\ lengths' = WordLengths(d)
            /\ buckets_number' = K
            /\ buckets' = buckets_with_indexes
            /\ data_by_buckets' = preprocess(InputSymbols, d, buckets_with_indexes)
    /\ pc' = "preprocessed"
    /\ UNCHANGED <<max_bucket_size, decodeVars, grammarVars, encodeVars, historyVars,
                   segmentVars, predictVars>>

\* the next call
PreprocessReturn ==
    /\ pc = "preprocessed"
    /\ pc' = "idle"
    /\ data' = <<>>
    /\ data_by_buckets' = NotCalled
    /\ lengths' = <<>>
    /\ buckets_number' = 1
    /\ buckets' = NotCalled
    /\ UNCHANGED <<max_bucket_size, decodeVars, grammarVars, encodeVars, historyVars,
                   segmentVars, predictVars>>

NextPreprocess == Preprocess \/ PreprocessReturn

SpecPreprocess == Init /\ [][NextPreprocess]_vars

SpecEncode == Init /\ [][NextEncode]_vars

\* self._predict_label_probs(words) of a Partitioner with buckets_number = K
PredictLabelProbs ==
    /\ pc = "idle"
    /\ \E d \in DataLists, K \in 1..MaxBuckets :
         LET buckets_with_indexes == collect_buckets(WordLengths(d), K, NoSize)
         IN /\ data' = d
            /\ lengths' = WordLengths(d)
            /\ buckets_number' = K
            /\ buckets' = buckets_with_indexes
            /\ data_by_buckets' = preprocess(InputSymbols, d, buckets_with_indexes)
            /\ word_probs' = predict_label_probs(InputSymbols, d, K)
    /\ pc' = "label_probs"
    /\ UNCHANGED <<max_bucket_size, decodeVars, grammarVars, encodeVars, historyVars,
                   segmentVars>>

\* the next call
LabelProbsReturn ==
    /\ pc = "label_probs"
    /\ pc' = "idle"
    /\ data' = <<>>
    /\ data_by_buckets' = NotCalled
    /\ lengths' = <<>>
    /\ buckets_number' = 1
    /\ buckets' = NotCalled
    /\ word_probs' = NotCalled
    /\ UNCHANGED <<max_bucket_size, decodeVars, grammarVars, encodeVars, historyVars,
                   segmentVars>>

NextLabelProbs == PredictLabelProbs \/ LabelProbsReturn

SpecLabelProbs == Init /\ [][NextLabelProbs]_vars

\* self.labels_to_morphemes(word, labels, return_types=True)
LabelsToMorphemes ==
    /\ pc = "idle"
    /\ \E self \in Segmenters, n \in 0..MaxTagged, ls \in TaggedLists :
         /\ memo' = self
         /\ word' = WordOf(n)
         /\ labels' = ls
         /\ segmented' = labels_to_morphemes(self, WordOf(n), ls)
    /\ pc' = "segmented"
    /\ UNCHANGED <<features, decodeVars, bucketVars, grammarVars, recodeVars,
                   historyVars, predictVars>>

\* the next word
SegmentReturn ==
    /\ pc = "segmented"
    /\ pc' = "idle"
    /\ memo' = NoMemo
    /\ word' = <<>>
    /\ labels' = <<>>
    /\ segmented' = NotSegmented
    /\ UNCHANGED <<features, decodeVars, bucketVars, grammarVars, recodeVars,
                   historyVars, predictVars>>

NextSegment == LabelsToMorphemes \/ SegmentReturn

SpecSegment == Init /\ [][NextSegment]_vars

\* is_correct_morpheme_sequence(morphemes) for a list of tagged labels
IsCorrectTagged ==
    /\ pc = "idle"
    /\ \E ms \in TaggedLists :
         /\ morphemes' = ms
         /\ answer' = is_correct_morpheme_sequence(ms)
    /\ pc' = "is_correct"
    /\ UNCHANGED <<decodeVars, bucketVars, encodeVars, recodeVars, historyVars,
                   segmentVars, predictVars>>

NextTagged == IsCorrectTagged \/ GrammarReturn

SpecTagged == Init /\ [][NextTagged]_vars


(***************************************************************************)
(* The constrained decoder: the properties                                 *)
(***************************************************************************)
\* the labels of a sequence of codes
LabelsOf(self, codes) ==
    List([k \in 1..Len(codes) |-> self.target_symbols_[codes[k] + 1]])

\* the row-wise argmax of rows 1..length
ArgMaxCodes == List([k \in 1..length |-> ArgMax(probs[k])])

\* the codes of the returned labels
ReturnedCodes == SubSeq(decoded.best_states, 2, Len(decoded.best_states))

\* the product of the probabilities of a sequence of codes, one per position,
\* in units of 1 / 2^(LogDenom * length)
RECURSIVE ProbFrom(_, _)
ProbFrom(codes, k) ==
    IF k > Len(codes) THEN 1 ELSE probs[k][codes[k]] * ProbFrom(codes, k + 1)

\* the sequences of length `length` that is_correct_morpheme_sequence accepts
Accepted ==
    {codes \in [1..length -> LabelCodes(Fitted(corpus))] :
        is_correct_morpheme_sequence(LabelsOf(Fitted(corpus), codes)).val}

\* the fallback search ended, and no admissible end state has a finite cost
NoEndStateReached ==
    /\ decoded.fallback
    /\ Len(decoded.layers) = length + 1
    /\ decoded.layers[length + 1].err = "none"
    /\ \A k \in 1..Len(Fitted(corpus).end_states) :
          isinf(decoded.layers[length + 1].costs[Fitted(corpus).end_states[k] + 1])

\* C1: for every word length m >= 1 and every matrix whose row 0 has its
\* maximum at BEGIN, the label sequence _decode_best returns, from the fast
\* path or from the fallback search, is accepted by
\* is_correct_morpheme_sequence.
C1_ReturnedSequenceIsAccepted ==
    (/\ pc = "decoded"
     /\ length >= 1
     /\ ArgMax(probs[0]) = BEGIN
     /\ decoded.err = "none") =>
        is_correct_morpheme_sequence(decoded.labels) = [err |-> "none", val |-> TRUE]

\* C2: for every matrix and word length m >= 1, no label sequence of length
\* m that is_correct_morpheme_sequence accepts has a strictly larger product
\* of per-position probabilities than the sequence _decode_best returns.
C2_ReturnedSequenceIsMostProbable ==
    (pc = "decoded" /\ length >= 1 /\ decoded.err = "none") =>
        \A codes \in Accepted : ProbFrom(codes, 1) <= ProbFrom(ReturnedCodes, 1)

\* C3: if the row-wise argmax labels of rows 1..m form a sequence that
\* is_correct_morpheme_sequence accepts, _decode_best returns exactly that
\* sequence and does not enter the fallback search.
C3_AcceptedArgmaxIsReturned ==
    (/\ pc = "decoded"
     /\ is_correct_morpheme_sequence(LabelsOf(Fitted(corpus), ArgMaxCodes)).val) =>
        /\ decoded.err = "none"
        /\ ~decoded.fallback
        /\ decoded.labels = LabelsOf(Fitted(corpus), ArgMaxCodes)

\* C7: for a word of length m >= 1, whenever the fallback search ends with
\* no admissible end state reached at finite cost, the call ends in an error
\* and returns no label sequence.
C7_NoSequenceWithoutEndState ==
    (pc = "decoded" /\ length >= 1 /\ NoEndStateReached) => decoded.err # "none"

\* C10: for every word length m >= 0 and every matrix with m + 2 rows,
\* _decode_best returns exactly m labels and a trimmed matrix of exactly m
\* rows, without error.
C10_ReturnsOneLabelPerCharacter ==
    pc = "decoded" =>
        /\ decoded.err = "none"
        /\ Len(decoded.labels) = length
        /\ Len(decoded.probs_to_return) = length

\* C16: the first label of every sequence _decode_best returns for a word of
\* m >= 1 characters, from the fast path or from the fallback search, has a
\* boundary tag in {B, S} and a morpheme type in {PREF, ROOT, None}.
C16_FirstLabelOpensAWord ==
    (pc = "decoded" /\ length >= 1 /\ decoded.err = "none") =>
        LET parts == Split(decoded.labels[1])
        IN /\ Len(parts) = 2
           /\ parts[1] \in {sB, sS}
           /\ parts[2] \in {sPREF, sROOT, sNone}

\* C17: the last label of every sequence _decode_best returns for a word of
\* m >= 1 characters satisfies the last-label rule of
\* is_correct_morpheme_sequence: its tag is E or S and its type is one of the
\* validator's last types.
C17_LastLabelClosesAWord ==
    (pc = "decoded" /\ length >= 1 /\ decoded.err = "none") =>
        LET parts == Split(decoded.labels[Len(decoded.labels)])
        IN /\ Len(parts) = 2
           /\ parts[1] \in {sE, sS}
           /\ InList(parts[2], LastTypes)

\* the call about to be made has the arguments of the earlier call
SameArguments ==
    /\ earlier # NoCall
    /\ <<corpus, probs, length>> = <<earlier.corpus, earlier.probs, earlier.length>>

ChosenBefore(j) == IF j = 0 THEN BEGIN ELSE ReturnedCodes[j]

\* the codes of the labels of the alphabet that are in get_next_morpheme of
\* the label of code c
Successors(self, c) ==
    {l \in CodesOf(self.target_symbols_) :
        InList(self.target_symbols_[l + 1],
               get_next_morpheme(self.target_symbols_[c + 1]).val)}

\* C11: in the trimmed matrix _decode_best returns, the entry of position j
\* and label l is probs[j+1][l] when l is in get_next_morpheme of the label
\* chosen before (BEGIN for j = 0) and 0 otherwise, whatever row 0 holds.
C11_TrimmedByChosenPredecessor ==
    (pc = "decoded" /\ decoded.err = "none") =>
        \A j \in 0..(length - 1) : \A l \in CodesOf(Fitted(corpus).target_symbols_) :
            decoded.probs_to_return[j + 1][l] =
                IF l \in Successors(Fitted(corpus), ChosenBefore(j))
                THEN probs[j + 1][l] ELSE 0

\* the predecessors the search may extend to label s at layer j + 1: the codes
\* with a finite cost in layer j (BEGIN alone at position 0, no reserved code
\* later) that have s among their possible next states
LegalPredecessors(self, layers, j, s) ==
    {p \in CodesOf(self.target_symbols_) :
        /\ ~isinf(layers[j].costs[p + 1])
        /\ (p \notin AUXILIARY_CODES \/ j = 1)
        /\ get_possible_next_states(self, p).err = "none"
        /\ InList(s, get_possible_next_states(self, p).val)}

\* cost(p) - log probs[j][s] for the predecessor p of layer j
CostThrough(layers, j, p, s) ==
    AddCost(layers[j].costs[p + 1], NegLog(probs[j][s]))

\* the layers the fallback search of the call built without an exception
SearchedLayers ==
    {j \in 1..(Len(decoded.layers) - 1) : decoded.layers[j + 1].err = "none"}

\* C21: in the fallback search, the cost recorded for a label s that is not
\* reserved at a position is the least of cost(p) - log probs[position][s]
\* over the legal predecessors p of finite cost, and the recorded predecessor
\* attains it (infinite and no predecessor when there is none).
C21_FirstWriteIsTheMinimum ==
    (pc = "decoded" /\ decoded.fallback) =>
        \A j \in SearchedLayers :
            \A s \in CodesOf(Fitted(corpus).target_symbols_) \ AUXILIARY_CODES :
                LET preds == LegalPredecessors(Fitted(corpus), decoded.layers, j, s)
                    cost == decoded.layers[j + 1].costs[s + 1]
                    from == decoded.layers[j + 1].states[s + 1]
                IN IF preds = {} THEN isinf(cost) /\ from = NoneState
                   ELSE /\ from \in preds
                        /\ cost = CostThrough(decoded.layers, j, from, s)
                        /\ \A p \in preds :
                               cost <= CostThrough(decoded.layers, j, p, s)

\* the same, for the calls whose matrix holds no zero probability after row 0
C21_MinimumWithoutZeroProbabilities ==
    (\A j \in 1..length : \A c \in CodesOf(Fitted(corpus).target_symbols_) :
         probs[j][c] # 0) => C21_FirstWriteIsTheMinimum

\* C22: in the fallback search every label is counted by inf_count at most
\* once per position, and a position whose counter came down to the number
\* of reserved codes (the stop of line 764) has the predecessor of every
\* label that is not reserved set.
C22_EachLabelCountedOnce ==
    (pc = "decoded" /\ decoded.fallback) =>
        \A j \in SearchedLayers :
            LET layer == decoded.layers[j + 1]
                codes == CodesOf(Fitted(corpus).target_symbols_)
            IN /\ \A s \in codes : layer.writes[s + 1] <= 1
               /\ layer.inf_count = Cardinality(AUXILIARY_CODES) =>
                      \A s \in codes \ AUXILIARY_CODES :
                          layer.states[s + 1] # NoneState

\* the same, for the calls whose matrix holds no zero probability after row 0
C22_CountedOnceWithoutZeroProbabilities ==
    (\A j \in 1..length : \A c \in CodesOf(Fitted(corpus).target_symbols_) :
         probs[j][c] # 0) => C22_EachLabelCountedOnce

\* the outcome of the call on the same word with row 0 replaced by `first`
WithRowZero(first, tie) ==
    decode_best(Fitted(corpus), [probs EXCEPT ![0] = first], length, tie)

\* C23: the fallback search starts from a layer where BEGIN costs 0 and every
\* other label costs infinity, and what it returns is what it returns for
\* any other row 0 of the matrix.
C23_FallbackIgnoresRowZero ==
    (pc = "decoded" /\ decoded.fallback) =>
        /\ decoded.layers[1].costs =
               List([k \in 1..Fitted(corpus).target_symbols_number_ |->
                        IF k - 1 = BEGIN THEN 0 ELSE Inf])
        /\ \E tie \in TieOrders :
               \A first \in FirstRows(Fitted(corpus)) :
                   /\ WithRowZero(first, tie).err = decoded.err
                   /\ WithRowZero(first, tie).labels = decoded.labels

\* the sequence alone, for the calls where BEGIN has a probability in row 0
C23_SameSequenceWhenBeginIsPossible ==
    (pc = "decoded" /\ decoded.fallback /\ probs[0][BEGIN] # 0) =>
        \E tie \in TieOrders :
            \A first \in {f \in FirstRows(Fitted(corpus)) \cup
                                AnyFirstRows(Fitted(corpus)) : f[BEGIN] # 0} :
                /\ WithRowZero(first, tie).err = decoded.err
                /\ WithRowZero(first, tie).labels = decoded.labels

(***************************************************************************)
(* The morpheme context encoder: the properties                            *)
(***************************************************************************)
\* some match wrote the slot of channel ch at row `row`
Written(row, ch) ==
    \E i \in 1..Len(features.log) :
        features.log[i].row = row /\ features.log[i].ch = ch

\* typed mode; a dictionary root of at least two characters is word[0:k] and
\* a dictionary suffix of at least two characters is word[k:m]
RootThenSuffix(k) ==
    /\ memo.use_morpheme_types
    /\ k >= 2
    /\ k <= Len(word) - 2
    /\ SubSeq(word, 1, k) \in memo.left_morphemes_.root
    /\ Reverse(SubSeq(word, k + 1, Len(word))) \in memo.right_morphemes_.suff

MaxWritten(row, ch) ==
    LET scores == {AsInt(features.log[i].score) :
                      i \in {j \in 1..Len(features.log) :
                                features.log[j].row = row /\ features.log[j].ch = ch}}
    IN IF scores = {} THEN 0 ELSE CHOOSE x \in scores : \A y \in scores : y <= x

\* C14: in the typed and in the flat encoder every channel slot holds the
\* maximum of the scores of the matches that wrote to it (as the int array
\* keeps a score), and 0 when no match wrote to it.
C14_SlotHoldsMaxOfItsWrites ==
    (pc = "encoded" /\ features.err = "none") =>
        \A row \in 0..(Len(features.arr) - 1) :
            \A ch \in 0..(Len(features.arr[row + 1]) - 1) :
                features.arr[row + 1][ch + 1] = MaxWritten(row, ch)

\* the evidence of a root at word[from:to] (0-based, to exclusive) has been
\* written: root-single at row to for one character, else root-start at row
\* from + 1 and root-end at row to
RootWritten(from, to) ==
    IF to = from + 1 THEN Written(to, 11)
    ELSE Written(from + 1, 1) /\ Written(to, 6)

\* C25: in the typed encoder, for every candidate root end e and every
\* dictionary root r with word[e-len(r):e] = r, the evidence of the root is
\* written: root-start at row e-len(r)+1 and root-end at row e, or
\* root-single at row e for a root of one character.
C25_RootsFoundBackward ==
    (pc = "encoded" /\ memo.use_morpheme_types) =>
        \A e \in suffix_starts(memo, word) : \A r \in memo.left_morphemes_.root :
            (Len(r) <= e /\ SubSeq(word, e - Len(r) + 1, e) = r) =>
                RootWritten(e - Len(r), e)

\* some match wrote the slot of channel ch at row `row` with this score
WrittenWith(row, ch, score) ==
    \E i \in 1..Len(features.log) :
        /\ features.log[i].row = row
        /\ features.log[i].ch = ch
        /\ features.log[i].score = score

\* C26: in the typed encoder, for every candidate root start s (0 and every
\* prefix end) and every dictionary root r with word[s:s+len(r)] = r, the
\* evidence of the root is written with the score of r: root-start at row
\* s+1 and root-end at row s+len(r), or root-single at row s+1 for a root of
\* one character.
C26_RootsFoundForward ==
    (pc = "encoded" /\ memo.use_morpheme_types) =>
        \A st \in root_starts(memo, word) : \A r \in memo.left_morphemes_.root :
            (/\ st + Len(r) <= Len(word)
             /\ SubSeq(word, st + 1, st + Len(r)) = r) =>
                LET score == get_ngram_score(memo, r, "root")
                IN IF Len(r) = 1 THEN WrittenWith(st + 1, 11, score)
                   ELSE /\ WrittenWith(st + 1, 1, score)
                        /\ WrittenWith(st + Len(r), 6, score)

\* the same, for the roots at the start of the word
C26_RootsFoundAtTheStart ==
    (pc = "encoded" /\ memo.use_morpheme_types) =>
        \A r \in memo.left_morphemes_.root :
            (Len(r) <= Len(word) /\ SubSeq(word, 1, Len(r)) = r) =>
                LET score == get_ngram_score(memo, r, "root")
                IN IF Len(r) = 1 THEN WrittenWith(1, 11, score)
                   ELSE WrittenWith(1, 1, score) /\ WrittenWith(Len(r), 6, score)

\* C27: with the counts memorized, a match whose score is a fraction strictly
\* between 0 and 1 leaves at least that fraction in the slot it wrote, in the
\* typed and in the flat encoder.
C27_FractionalScoreKept ==
    (pc = "encoded" /\ features.err = "none" /\ memo.to_memorize_ngram_counts) =>
        \A i \in 1..Len(features.log) :
            (0 < features.log[i].score /\ features.log[i].score < One) =>
                features.arr[features.log[i].row + 1][features.log[i].ch + 1]
                    >= features.log[i].score

(***************************************************************************)
(* Recoding the words of a bucket: the properties                          *)
(***************************************************************************)
\* the word at position j of bucket b, and its row
PlacedWord(b, j) == data[buckets.val[b].indexes[j] + 1]
PlacedRow(b, j) == data_by_buckets.val[b][j]

\* C15: _preprocess of a non-empty list of words raises nothing, and the row
\* of every word placed in a bucket with threshold L has length L, BEGIN at
\* column 0, the codes of the word's characters at columns 1..len(word),
\* UNKNOWN for a character the vocabulary lacks, END at column len(word)+1
\* and PAD in all later columns.
C15_PlacedWordsAreRecoded ==
    (pc = "preprocessed" /\ data # <<>>) =>
        /\ data_by_buckets.err = "none"
        /\ Len(data_by_buckets.val) = Len(buckets.val)
        /\ \A b \in 1..Len(buckets.val) :
              /\ Len(data_by_buckets.val[b]) = Len(buckets.val[b].indexes)
              /\ \A j \in 1..Len(buckets.val[b].indexes) :
                    LET w == PlacedWord(b, j)
                        row == PlacedRow(b, j)
                    IN /\ Len(row) = buckets.val[b].L
                       /\ row[1] = BEGIN
                       /\ \A c \in 1..Len(w) :
                             row[c + 1] = IF HasSymbol(InputSymbols, <<w[c]>>)
                                          THEN target_symbol_codes_(InputSymbols, <<w[c]>>)
                                          ELSE UNKNOWN
                       /\ row[Len(w) + 2] = END
                       /\ \A c \in (Len(w) + 3)..Len(row) : row[c] = PAD

\* a word with a character the vocabulary lacks has been placed in a bucket
\* whose threshold is above the word's length + 2, and recoded
C15_UnknownCharacterPadded ==
    /\ pc = "preprocessed"
    /\ data_by_buckets.err = "none"
    /\ \E b \in 1..Len(buckets.val) : \E j \in 1..Len(buckets.val[b].indexes) :
          /\ \E c \in 1..Len(PlacedWord(b, j)) : PlacedWord(b, j)[c] = "c"
          /\ Len(PlacedWord(b, j)) + 2 < buckets.val[b].L
          /\ UNKNOWN \in {PlacedRow(b, j)[c] : c \in 1..Len(PlacedRow(b, j))}

(***************************************************************************)
(* The probabilities of the labels, word by word: the properties           *)
(***************************************************************************)
\* the buckets that hold the index i (0-based) of the words
BucketsWith(i) ==
    {b \in 1..Len(buckets.val) :
        \E k \in 1..Len(buckets.val[b].indexes) : buckets.val[b].indexes[k] = i}

\* every entry was assigned once, the matrix computed from the row of its
\* word in the bucket of the word
FilledInInputOrder ==
    /\ word_probs.err = "none"
    /\ Len(word_probs.val) = Len(data)
    /\ \A i \in 0..(Len(data) - 1) :
          /\ word_probs.val[i + 1].writes = 1
          /\ \E b \in BucketsWith(i) :
                word_probs.val[i + 1].elem =
                    [input |-> RecodeWord(data[i + 1], buckets.val[b].L,
                                          InputSymbols).val]

\* C29: _predict_label_probs raises nothing and assigns every entry of its
\* result exactly once, entry i the matrix computed for word i in its
\* bucket, for every list of words and every buckets_number >= 1.
C29_EveryEntryFilledOnce ==
    pc = "label_probs" => FilledInInputOrder

\* the same, for the lists of at least one word
C29_FilledOnceForWords ==
    (pc = "label_probs" /\ data # <<>>) => FilledInInputOrder

(***************************************************************************)
(* Length bucketing: the properties                                        *)
(***************************************************************************)
\* the buckets that hold index i of the input
BucketsOf(i) ==
    {b \in 1..Len(buckets.val) :
        \E k \in 1..Len(buckets.val[b].indexes) : buckets.val[b].indexes[k] = i}
\* how often index i occurs in the returned buckets
Occurrences(i) ==
    Cardinality({bk \in (1..Len(buckets.val)) \X (1..Len(lengths)) :
                    /\ bk[2] <= Len(buckets.val[bk[1]].indexes)
                    /\ buckets.val[bk[1]].indexes[bk[2]] = i})

\* C4: for every list of N >= 1 non-negative lengths, zeros included, every
\* buckets_number >= 1 and every max_bucket_size, collect_buckets returns
\* buckets in which each index 0..N-1 occurs exactly once and, with no max
\* size, in the first bucket whose threshold is >= the length of the item.
C4_EveryIndexInItsFirstFittingBucket ==
    (pc = "collected" /\ lengths # <<>>) =>
        /\ buckets.err = "none"
        /\ \A i \in 0..(Len(lengths) - 1) :
              /\ Occurrences(i) = 1
              /\ max_bucket_size = NoSize =>
                    \A b \in BucketsOf(i) :
                        /\ lengths[i + 1] <= buckets.val[b].L
                        /\ \A a \in 1..(b - 1) : buckets.val[a].L < lengths[i + 1]

\* C5 as stated: the thresholds of the returned buckets are strictly
\* increasing from one bucket to the next, for every input, split buckets
\* included.
C5_ThresholdsStrictlyIncreasing ==
    (pc = "collected" /\ buckets.err = "none") =>
        \A b \in 1..(Len(buckets.val) - 1) : buckets.val[b].L < buckets.val[b + 1].L

\* C5: the thresholds of the returned buckets never decrease, and two
\* neighbours have the same threshold only when a max size is given and the
\* first of the two is a full piece of a split bucket; with no max size the
\* thresholds are strictly increasing.
C5_ThresholdsIncreasingUpToSplits ==
    (pc = "collected" /\ buckets.err = "none") =>
        \A b \in 1..(Len(buckets.val) - 1) :
            /\ buckets.val[b].L <= buckets.val[b + 1].L
            /\ buckets.val[b].L = buckets.val[b + 1].L =>
                  /\ max_bucket_size # NoSize
                  /\ Len(buckets.val[b].indexes) = max_bucket_size

\* a call that splits a bucket and returns a larger threshold after the pieces
C5_SplitBucketReturned ==
    /\ pc = "collected"
    /\ buckets.err = "none"
    /\ \E b \in 1..(Len(buckets.val) - 2) :
          /\ buckets.val[b].L = buckets.val[b + 1].L
          /\ buckets.val[b + 1].L < buckets.val[b + 2].L

\* the lengths are exactly 1..N in some order, N >= 1
LengthsAreOneToN ==
    /\ lengths # <<>>
    /\ {lengths[k] : k \in 1..Len(lengths)} = 1..Len(lengths)

\* C12: for N >= 1 items whose lengths are exactly 1..N in any order, a
\* bucket count K that divides N and no max bucket size, collect_buckets
\* returns exactly K buckets, the b-th with threshold b * N / K and N / K
\* indices.
C12_EvenBucketsOfOneToN ==
    (/\ pc = "collected"
     /\ max_bucket_size = NoSize
     /\ LengthsAreOneToN
     /\ Len(lengths) % buckets_number = 0) =>
        /\ buckets.err = "none"
        /\ Len(buckets.val) = buckets_number
        /\ \A b \in 1..Len(buckets.val) :
              /\ buckets.val[b].L = b * (Len(lengths) \div buckets_number)
              /\ Len(buckets.val[b].indexes) = Len(lengths) \div buckets_number

\* lengths 1..N out of order and cut into more than one bucket
C12_ShuffledLengthsBucketed ==
    /\ pc = "collected"
    /\ max_bucket_size = NoSize
    /\ LengthsAreOneToN
    /\ Len(lengths) % buckets_number = 0
    /\ buckets_number >= 2
    /\ Len(lengths) > buckets_number
    /\ lengths[1] > lengths[2]
    /\ Len(buckets.val) = buckets_number

\* C8: collect_buckets called with an empty list of lengths and any
\* buckets_number >= 1 returns the empty list of buckets and raises no error.
C8_EmptyLengthsGiveNoBuckets ==
    (pc = "collected" /\ lengths = <<>>) =>
        /\ buckets.err = "none"
        /\ buckets.val = <<>>

\* ceil(c / S)
CeilDiv(c, S) == (c + S - 1) \div S

\* the number of buckets returned for the first k of the buckets `unsplit`
RECURSIVE PiecesBefore(_, _, _)
PiecesBefore(unsplit, S, k) ==
    IF k = 0 THEN 0
    ELSE PiecesBefore(unsplit, S, k - 1) + CeilDiv(Len(unsplit[k].indexes), S)

\* `returned` is `unsplit` with every bucket cut into pieces of S indices
CutInto(returned, unsplit, S) ==
    /\ Len(returned) = PiecesBefore(unsplit, S, Len(unsplit))
    /\ \A k \in 1..Len(unsplit) :
          LET c == Len(unsplit[k].indexes)
          IN \A t \in 1..CeilDiv(c, S) :
                LET piece == returned[PiecesBefore(unsplit, S, k - 1) + t]
                    hi == IF t * S < c THEN t * S ELSE c
                IN /\ piece.L = unsplit[k].L
                   /\ Len(piece.indexes) <= S
                   /\ piece.indexes = SubSeq(unsplit[k].indexes, (t - 1) * S + 1, hi)

\* C24: with a max bucket size S > 0, the bucket of c indices of the call
\* without a max size is returned as ceil(c / S) consecutive buckets of the
\* same threshold, the t-th holding the indices (t-1)*S+1 .. min(t*S, c) of
\* the bucket in their order (so at most S each, and the bucket itself when
\* c <= S), and nothing else is returned.
C24_SplitIntoConsecutivePieces ==
    (pc = "collected" /\ buckets.err = "none" /\ max_bucket_size # NoSize) =>
        CutInto(buckets.val, collect_buckets(lengths, buckets_number, NoSize).val,
                max_bucket_size)

\* a call that cuts one bucket into a full and a partial piece and returns
\* another bucket unchanged
C24_SplitAndUnchangedReturned ==
    /\ pc = "collected"
    /\ buckets.err = "none"
    /\ max_bucket_size = 2
    /\ Len(buckets.val) = 3
    /\ LET unsplit == collect_buckets(lengths, buckets_number, NoSize).val
       IN /\ Len(unsplit) = 2
          /\ \E k \in 1..2 : /\ Len(unsplit[k].indexes) = 3
                             /\ Len(unsplit[3 - k].indexes) = 1

(***************************************************************************)
(* From labels back to morphemes: the properties                           *)
(***************************************************************************)
\* the strings of a list, one after the other
RECURSIVE Concat(_)
Concat(list) == IF list = <<>> THEN <<>> ELSE Head(list) \o Concat(Tail(list))

\* the positions of the labels tagged E or S, in ascending order
ClosingPositions(ls) ==
    Ascending({i \in 1..Len(ls) : Split(ls[i])[1] \in {sE, sS}})

\* the call is one the claim is about: a word and an accepted label sequence
\* of the same length, on a Partitioner of the mode of the sequence
AcceptedCall ==
    /\ pc = "segmented"
    /\ Len(labels) = Len(word)
    /\ is_correct_morpheme_sequence(labels).val
    /\ memo.use_morpheme_types <=> (Split(labels[1])[2] # sNone)

\* C28: for a word and an accepted label sequence of the same length,
\* labels_to_morphemes returns one morpheme and one type per label tagged E
\* or S, the k-th morpheme being the characters after the (k-1)-th such label
\* up to the k-th and its type the type of that label; the morphemes
\* concatenated are the word.
C28_MorphemesCoverTheWord ==
    AcceptedCall =>
        LET closing == ClosingPositions(labels)
        IN /\ segmented.err = "none"
           /\ Concat(segmented.morphemes) = word
           /\ Len(segmented.morphemes) = Len(closing)
           /\ Len(segmented.morpheme_types) = Len(closing)
           /\ \A k \in 1..Len(closing) :
                 /\ segmented.morphemes[k] =
                        SubSeq(word, IF k = 1 THEN 1 ELSE closing[k - 1] + 1,
                               closing[k])
                 /\ segmented.morpheme_types[k] = Split(labels[closing[k]])[2]

\* the same, for the sequences without a label of type POSTFIX tagged S
C28_CoveredWithoutSinglePostfix ==
    (\A i \in 1..Len(labels) : labels[i] # Format(sS, sPOSTFIX)) =>
        C28_MorphemesCoverTheWord

(***************************************************************************)
(* The label grammar: the properties                                       *)
(***************************************************************************)
\* C6 as stated: for every label of the label space, get_next_morpheme is
\* the empty list if and only if the label is END.
C6_EmptyIffEND ==
    pc = "next_morpheme" =>
        /\ answer.err = "none"
        /\ answer.val = <<>> <=> morphemes = sEND

\* C6: for every label of the label space, get_next_morpheme raises nothing
\* and is the empty list if and only if the label is END or a closed POSTFIX
\* morpheme (E-POSTFIX, S-POSTFIX).
C6_EmptyIffENDOrClosedPostfix ==
    pc = "next_morpheme" =>
        /\ answer.err = "none"
        /\ answer.val = <<>> <=>
              morphemes \in {sEND, Format(sE, sPOSTFIX), Format(sS, sPOSTFIX)}

\* get_next_morpheme has answered for a closed POSTFIX morpheme
C6_ClosedPostfixAnswered ==
    /\ pc = "next_morpheme"
    /\ morphemes = Format(sS, sPOSTFIX)
    /\ answer = [err |-> "none", val |-> <<>>]

\* the table of successor types, type by type
TableOfNextTypes(type) ==
    IF type = sNone THEN <<sNone>>
    ELSE IF type \in {sROOT, sSUFF}
    THEN <<sSUFF, sEND, sLINK, sPOSTFIX, sPREF, sROOT, sHYPH>>
    ELSE IF type = sHYPH THEN <<sSUFF, sEND, sLINK, sPOSTFIX, sPREF, sROOT>>
    ELSE IF type = sEND THEN <<sLINK, sPOSTFIX, sPREF, sROOT, sHYPH>>
    ELSE IF type \in {sPREF, sLINK} THEN <<sPREF, sROOT, sHYPH>>
    ELSE IF type = sBEGIN THEN <<sPREF, sROOT, sHYPH, sNone>>
    ELSE <<>>

\* C19 as stated: get_next_morpheme_types equals the table for every type,
\* and HYPH is in the result exactly when the result is non-empty and the
\* current type is not HYPH.
C19_TableAndHyphenUnlessHyphen ==
    pc = "next_types" =>
        /\ answer.val = TableOfNextTypes(morphemes)
        /\ InList(sHYPH, answer.val) <=> (answer.val # <<>> /\ morphemes # sHYPH)

\* C19: get_next_morpheme_types equals the table for every type, and HYPH is
\* in the result exactly when the result is non-empty and the current type
\* is neither HYPH nor None.
C19_TableAndHyphenUnlessHyphenOrNone ==
    pc = "next_types" =>
        /\ answer.val = TableOfNextTypes(morphemes)
        /\ InList(sHYPH, answer.val) <=>
              (answer.val # <<>> /\ morphemes \notin {sHYPH, sNone})

\* get_next_morpheme_types has answered for the type None
C19_NoneAnswered ==
    /\ pc = "next_types"
    /\ morphemes = sNone
    /\ answer.val = <<sNone>>

\* the labels of a list
LabelsIn(list) == {list[k] : k \in 1..Len(list)}

\* C20: for every label "<tag>-<type>" and for BEGIN, get_next_morpheme
\* raises nothing; for a tag B or M it returns exactly M-<type> and
\* E-<type>; for a tag E or S, and for BEGIN taken as S-BEGIN, exactly the
\* labels <B or S>-<y> with y in get_next_morpheme_types(type).
C20_SuccessorsByTag ==
    (pc = "next_morpheme" /\ morphemes # sEND) =>
        LET parts == Split(IF morphemes = sBEGIN THEN Format(sS, sBEGIN) ELSE morphemes)
            tag == parts[1]
            type == parts[2]
        IN /\ answer.err = "none"
           /\ Len(parts) = 2
           /\ tag \in {sB, sM} =>
                 LabelsIn(answer.val) = {Format(sM, type), Format(sE, type)}
           /\ tag \in {sE, sS} =>
                 LabelsIn(answer.val) =
                     {Format(t, y) : t \in {sB, sS},
                                     y \in LabelsIn(get_next_morpheme_types(type))}

\* get_next_morpheme has answered for a label inside a morpheme, and for BEGIN
C20_InsideASuffixAnswered ==
    /\ pc = "next_morpheme"
    /\ morphemes = Format(sM, sSUFF)
    /\ answer = [err |-> "none", val |-> <<Format(sM, sSUFF), Format(sE, sSUFF)>>]

\* the tag and the type of the i-th label of the list
TagOf(i) == Split(morphemes[i])[1]
TypeOf(i) == Split(morphemes[i])[2]

\* the list is a sequence of morphemes, each a single S label or a B label,
\* M labels and an E label of one type, and None is not mixed with other types
WellFormed ==
    /\ morphemes # <<>>
    /\ TagOf(Len(morphemes)) \in {sE, sS}
    /\ \A i \in 1..Len(morphemes) :
          /\ TagOf(i) \in {sB, sS} => (i = 1 \/ TagOf(i - 1) \in {sE, sS})
          /\ TagOf(i) \in {sM, sE} =>
                /\ i > 1
                /\ TagOf(i - 1) \in {sB, sM}
                /\ TypeOf(i) = TypeOf(i - 1)
          /\ TagOf(i) \in {sB, sM} =>
                /\ i < Len(morphemes)
                /\ TagOf(i + 1) \in {sM, sE}
    /\ \A i, j \in 1..Len(morphemes) : TypeOf(i) = sNone => TypeOf(j) = sNone

\* C30: every list of labels over the tags B, M, E, S that
\* is_correct_morpheme_sequence accepts is a well-formed segmentation.
C30_AcceptedIsWellFormed ==
    (pc = "is_correct" /\ answer.err = "none" /\ answer.val) => WellFormed

\* a morpheme of three labels has been accepted
C30_ThreeLabelMorphemeAccepted ==
    /\ pc = "is_correct"
    /\ morphemes = <<Format(sB, sROOT), Format(sM, sROOT), Format(sE, sROOT)>>
    /\ answer = [err |-> "none", val |-> TRUE]

\* C9: is_correct_morpheme_sequence never raises: for every list of label
\* strings it returns a boolean, and it returns False whenever some label
\* has no separator.
C9_ValidatorNeverRaises ==
    pc = "is_correct" =>
        /\ answer.err = "none"
        /\ answer.val \in BOOLEAN
        /\ (\E k \in 1..Len(morphemes) : ~InStr(<<Dash>>, morphemes[k])) =>
              answer.val = FALSE

=============================================================================
